---- MODULE Spec2Model ----
(***************************************************************************)
(* Secure-side mailbox queue engine of TF-M                                *)
(* (secure_fw/partitions/ns_agent_mailbox/tfm_spe_mailbox.c).              *)
(*                                                                         *)
(* The secure side (SPE) drains requests that the non-secure side (NSPE)   *)
(* queued in a shared slot table, dispatches them and replies either in    *)
(* the drain pass or later through tfm_mailbox_reply_msg.  The NSPE runs   *)
(* on another core: its steps interleave with the steps of a drain pass.   *)
(***************************************************************************)
EXTENDS Integers, Sequences, FiniteSets, TLC

(***************************************************************************)
(* Bound of the model.                                                     *)
(***************************************************************************)
\* Number of requests the non-secure side queues in one behaviour.
MaxSubmits == 2

(***************************************************************************)
(* Program constants.                                                      *)
(***************************************************************************)
\* Number of slots of the mailbox queue, a build-time capacity.
NUM_MAILBOX_QUEUE_SLOT == 2

PSA_MAX_IOVEC == 4

\* Build configuration the #if blocks of tfm_mailbox_dispatch test.
CONFIG_TFM_SPM_BACKEND_IPC == 1
CONFIG_TFM_CONNECTION_BASED_SERVICE_API == 1

MAILBOX_MSG_NULL_HANDLE == 0

\* Call type tags of a mailbox message.
MAILBOX_PSA_FRAMEWORK_VERSION == 1
MAILBOX_PSA_VERSION == 2
MAILBOX_PSA_CALL == 3
MAILBOX_PSA_CONNECT == 4
MAILBOX_PSA_CLOSE == 5
\* A tag that is none of the five above.
CALL_TYPE_UNKNOWN == 6

\* Status codes of the mailbox functions.
MAILBOX_SUCCESS == "MAILBOX_SUCCESS"
MAILBOX_INVAL_PARAMS == "MAILBOX_INVAL_PARAMS"
MAILBOX_NO_PEND_EVENT == "MAILBOX_NO_PEND_EVENT"

\* PSA status codes (psa/error.h).
PSA_SUCCESS == 0
PSA_ERROR_PROGRAMMER_ERROR == -129
PSA_ERROR_CONNECTION_REFUSED == -130
PSA_ERROR_GENERIC_ERROR == -132
PSA_ERROR_INVALID_ARGUMENT == -135

\* What tfm_rpc_psa_framework_version() returns.
PSA_FRAMEWORK_VERSION == 257

Slots == 0 .. (NUM_MAILBOX_QUEUE_SLOT - 1)

(***************************************************************************)
(* Bit operations on a status bitmask (mailbox_queue_status_t, an unsigned  *)
(* integer).  The masks of the model have bits at slot positions only:     *)
(* the operations look at those positions and one more.                    *)
(***************************************************************************)
BitPositions == 0 .. NUM_MAILBOX_QUEUE_SLOT

\* mask & (1 << idx), as a truth value
TestBit(mask, idx) == (mask \div (2 ^ idx)) % 2 = 1

\* the set of bit positions that are 1 in mask
BitsOf(mask) == {b \in BitPositions : TestBit(mask, b)}

RECURSIVE MaskOf(_)
\* the bitmask whose 1 bits are the positions in S
MaskOf(S) == IF S = {} THEN 0
             ELSE LET b == CHOOSE x \in S : TRUE
                  IN (2 ^ b) + MaskOf(S \ {b})

\* a | b
BitOr(a, b) == MaskOf(BitsOf(a) \cup BitsOf(b))

\* a & ~b
BitAndNot(a, b) == MaskOf(BitsOf(a) \ BitsOf(b))

\* (uint8_t)v
U8(v) == v % 256

\* The reply word: a status of type int32_t is cast to uint32_t and its
\* bytes are copied into the int32_t return_val of the reply area, which
\* therefore holds the same 32-bit value.
ReplyWord(v) == v

(***************************************************************************)
(* Data: messages, queue entries, staging entries.                         *)
(***************************************************************************)
\* A descriptor of psa_invec / psa_outvec.
Desc(base, len) == [base |-> base, len |-> len]
ZeroDesc == Desc(0, 0)

\* struct mailbox_msg_t: the call type, the fields of the params union the
\* dispatcher reads, and the client id.  in_vec and out_vec are pointers:
\* 0 is NULL, p > 0 is the descriptor array of non-secure slot p - 1.
MailboxMsg(ct, cid, sid, ver, h, inl, outl, inp, outp) ==
    [call_type |-> ct, client_id |-> cid, sid |-> sid, version |-> ver,
     handle |-> h, in_len |-> inl, out_len |-> outl,
     in_vec |-> inp, out_vec |-> outp]

\* A message of all zero bytes (spm_memset(.., 0, ..)).
ZeroMsg == MailboxMsg(0, 0, 0, 0, 0, 0, 0, 0, 0)

\* struct secure_mailbox_queue_t.queue[idx], zeroed.
ZeroSlot == [ns_slot_idx |-> 0, msg |-> ZeroMsg, msg_handle |-> 0]

\* struct vectors, zeroed (static struct vectors vectors[..] = {0}).
ZeroVectors ==
    [in_vec |-> [j \in 1 .. PSA_MAX_IOVEC |-> ZeroDesc],
     out_vec |-> [j \in 1 .. PSA_MAX_IOVEC |-> ZeroDesc],
     original_out_vec |-> 0, out_len |-> 0, in_use |-> FALSE]

\* The descriptor arrays a non-secure caller keeps for the request of a slot.
NoIovec == [in |-> << >>, out |-> << >>]

(***************************************************************************)
(* Requests the non-secure side queues in slot i: the message and the      *)
(* descriptor arrays its in_vec / out_vec pointers refer to.               *)
(***************************************************************************)
\* Client ids: a negative id is a non-secure client id the translation
\* accepts, a positive one is rejected.
GoodClient == -1
BadClient == 1

\* A service id and the handle of a service.
SomeSid == 1
SomeHandle == 7

Request(m, in, out) == [msg |-> m, in |-> in, out |-> out]

Requests(i) ==
    { Request(MailboxMsg(MAILBOX_PSA_FRAMEWORK_VERSION, GoodClient, 0, 0, 0, 0, 0, 0, 0),
              << >>, << >>),
      Request(MailboxMsg(MAILBOX_PSA_VERSION, GoodClient, SomeSid, 0, 0, 0, 0, 0, 0),
              << >>, << >>),
      \* a stateless call with one input and one output vector
      Request(MailboxMsg(MAILBOX_PSA_CALL, GoodClient, 0, 0, SomeHandle, 1, 1, i + 1, i + 1),
              << Desc(1, 2) >>, << Desc(2, 3) >>),
      \* a stateless call whose vector counts sum to more than PSA_MAX_IOVEC
      Request(MailboxMsg(MAILBOX_PSA_CALL, GoodClient, 0, 0, SomeHandle, 3, 2, i + 1, i + 1),
              << Desc(1, 2), Desc(1, 2), Desc(1, 2) >>, << Desc(2, 3), Desc(2, 3) >>),
      \* a stateless call from a client id the translation rejects
      Request(MailboxMsg(MAILBOX_PSA_CALL, BadClient, 0, 0, SomeHandle, 1, 1, i + 1, i + 1),
              << Desc(1, 2) >>, << Desc(2, 3) >>),
      Request(MailboxMsg(MAILBOX_PSA_CONNECT, GoodClient, SomeSid, 1, 0, 0, 0, 0, 0),
              << >>, << >>),
      Request(MailboxMsg(MAILBOX_PSA_CONNECT, BadClient, SomeSid, 1, 0, 0, 0, 0, 0),
              << >>, << >>),
      Request(MailboxMsg(MAILBOX_PSA_CLOSE, GoodClient, 0, 0, SomeHandle, 0, 0, 0, 0),
              << >>, << >>),
      Request(MailboxMsg(MAILBOX_PSA_CLOSE, BadClient, 0, 0, SomeHandle, 0, 0, 0, 0),
              << >>, << >>),
      Request(MailboxMsg(CALL_TYPE_UNKNOWN, GoodClient, 0, 0, 0, 0, 0, 0, 0),
              << >>, << >>) }

\* What the dispatch backend (tfm_rpc_psa_call, tfm_rpc_psa_connect,
\* tfm_rpc_psa_close) may return when a request is forwarded to it.
BackendRets == {PSA_SUCCESS, PSA_ERROR_PROGRAMMER_ERROR}

\* Results the backend passes to tfm_mailbox_reply_msg.
ReplyVals == {PSA_SUCCESS, PSA_ERROR_GENERIC_ERROR}

\* Handles tfm_mailbox_reply_msg is called with: the null handle, the handle
\* of every slot, the first handle past the last slot, and one that the
\* conversion to uint8_t wraps around.
Handles == (0 .. (NUM_MAILBOX_QUEUE_SLOT + 1)) \cup {257}

(***************************************************************************)
(* The state.                                                              *)
(***************************************************************************)
VARIABLES
    \* shared with the non-secure side (struct mailbox_status_t, ns_slots)
    pend_slots,      \* ns_status->pend_slots
    replied_slots,   \* ns_status->replied_slots
    ns_msg,          \* ns_slots[i].msg
    ns_reply,        \* ns_slots[i].reply.return_val
    ns_iovec,        \* the caller's descriptor arrays of slot i
    \* secure side (spe_mailbox_queue, vectors)
    ns_slot_count,   \* spe_mailbox_queue.ns_slot_count
    empty_slots,     \* spe_mailbox_queue.empty_slots
    queue,           \* spe_mailbox_queue.queue
    vectors,         \* vectors[]
    \* the running tfm_mailbox_handle_msg
    pc,              \* "idle", or "loop" / "finish" inside a drain pass
    idx,             \* the loop variable
    pend_snap,       \* the local pend_slots
    reply_slots,     \* the local reply_slots
    \* what the last operation did
    ret,             \* its name, the slot it resolved and its return value
    notify_cnt,      \* calls of tfm_mailbox_hal_notify_peer it made
    wb,              \* <<slot, j>> of every original_out_vec[j].len it wrote
    pass_log,        \* one record per slot the last drain pass dispatched
    fault,           \* "none", or how the secure side stopped
    \* the non-secure side's bookkeeping
    ns_busy,         \* slot i holds a request whose reply was not collected
    ns_fresh,        \* slot i holds a request no drain pass has copied yet
    redispatch,      \* a pass copied a slot that held no new request
    last_set,        \* the slot whose pending bit was set last
    nsub,            \* requests queued so far
    \* the events of the last operation, in program order
    cs_log,          \* "enter", "exit", status writes, staging, backend calls
    \* the connection pool of the SPM and the connection API
    connections,     \* the pool: one struct connection_t per pool entry
    api_ret,         \* the last connection API call, its return value and
                     \* the connection pointer it left
    forwarded_msg,   \* what the last call passed to backend_messaging
    api_fault,       \* "none", or "panic" after tfm_core_panic()
    \* tfm_mailbox_init at start-up
    boot             \* the queue being initialised and how init ended

shared == <<pend_slots, replied_slots, ns_msg, ns_reply, ns_iovec>>
secure == <<ns_slot_count, empty_slots, queue, vectors>>
pass == <<pc, idx, pend_snap, reply_slots>>
observed == <<ret, notify_cnt, wb, pass_log, fault>>
nsbook == <<ns_busy, ns_fresh, redispatch, last_set, nsub>>
connapi == <<connections, api_ret, forwarded_msg, api_fault>>
vars == <<shared, secure, pass, observed, nsbook, cs_log, connapi, boot>>

(***************************************************************************)
(* Collaborators outside the mailbox engine.                               *)
(***************************************************************************)
\* tfm_multi_core_hal_client_id_translate: TRUE when it returns SPM_SUCCESS.
ClientIdTranslates(client_id) == client_id < 0

\* tfm_rpc_psa_framework_version()
tfm_rpc_psa_framework_version == PSA_FRAMEWORK_VERSION

\* tfm_rpc_psa_version(sid): the version of the service, 0 (PSA_VERSION_NONE)
\* when there is none.
tfm_rpc_psa_version(sid) == IF sid = SomeSid THEN 1 ELSE 0

(***************************************************************************)
(* The status helpers.                                                     *)
(***************************************************************************)
set_spe_queue_empty_status(empty, i) ==
    IF i < NUM_MAILBOX_QUEUE_SLOT THEN BitOr(empty, 2 ^ i) ELSE empty

clear_spe_queue_empty_status(empty, i) ==
    IF i < NUM_MAILBOX_QUEUE_SLOT THEN BitAndNot(empty, 2 ^ i) ELSE empty

\* A faulty get_spe_queue_empty_status that never reports a slot empty.
get_spe_queue_empty_status_Never(empty, i) == FALSE

get_spe_queue_empty_status(empty, i) ==
    (i < NUM_MAILBOX_QUEUE_SLOT) /\ TestBit(empty, i)

get_nspe_queue_pend_status(pend) == pend

set_nspe_queue_replied_status(replied, mask) == BitOr(replied, mask)

clear_nspe_queue_pend_status(pend, mask) == BitAndNot(pend, mask)

\* The handle of slot i: [ret, handle].
get_spe_mailbox_msg_handle(i) ==
    IF i >= NUM_MAILBOX_QUEUE_SLOT
    THEN [ret |-> MAILBOX_INVAL_PARAMS, handle |-> 0]
    ELSE [ret |-> MAILBOX_SUCCESS, handle |-> i + 1]

\* The slot index of a handle: [ret, idx].
get_spe_mailbox_msg_idx(handle) ==
    IF handle = MAILBOX_MSG_NULL_HANDLE
    THEN [ret |-> MAILBOX_INVAL_PARAMS, idx |-> 0]
    ELSE [ret |-> MAILBOX_SUCCESS, idx |-> U8(handle - 1)]

(***************************************************************************)
(* The functions of the engine work on the memory they can change, held    *)
(* in a record st with the fields                                          *)
(*   vectors, queue, empty_slots   the secure side's data                  *)
(*   ns_reply, ns_iovec            non-secure memory the secure side writes*)
(*   wb, fault                     what was written back / a stop          *)
(*   ev                            the events so far, in program order     *)
(***************************************************************************)
Memory ==
    [vectors |-> vectors, queue |-> queue, empty_slots |-> empty_slots,
     ns_reply |-> ns_reply, ns_iovec |-> ns_iovec, wb |-> wb, fault |-> fault,
     ev |-> << >>]

\* The memory after event e was added to the events.
Ev(st, e) == [st EXCEPT !.ev = Append(@, e)]

\* A faulty mailbox_clean_queue_slot that zeroes the slot and leaves its
\* empty bit clear.
mailbox_clean_queue_slot_NoEmptyBit(st, i) ==
    IF i >= NUM_MAILBOX_QUEUE_SLOT THEN st
    ELSE [st EXCEPT !.queue[i] = ZeroSlot]

mailbox_clean_queue_slot(st, i) ==
    IF i >= NUM_MAILBOX_QUEUE_SLOT THEN st
    ELSE Ev([st EXCEPT !.queue[i] = ZeroSlot,
                       !.empty_slots = set_spe_queue_empty_status(@, i)],
            "empty_write")

\* TRUE when get_nspe_reply_addr(i) calls psa_panic().
get_nspe_reply_addr_panics(st, i) ==
    \/ i >= NUM_MAILBOX_QUEUE_SLOT
    \/ st.queue[i].ns_slot_idx >= NUM_MAILBOX_QUEUE_SLOT
    \/ st.queue[i].ns_slot_idx >= ns_slot_count

\* The non-secure slot whose reply area get_nspe_reply_addr(i) returns.
get_nspe_reply_addr(st, i) == st.queue[i].ns_slot_idx

\* A faulty CopyLensBack that writes every descriptor of the caller's array.
CopyLensBack_WholeArray(orig, staged, n) ==
    [j \in 1 .. Len(orig) |->
        IF j <= PSA_MAX_IOVEC THEN [orig[j] EXCEPT !.len = staged[j].len]
        ELSE [orig[j] EXCEPT !.len = 0]]

\* The caller's output descriptors after the lengths of the first n staged
\* output descriptors were copied back into them.
CopyLensBack(orig, staged, n) ==
    [j \in 1 .. Len(orig) |->
        IF j <= n THEN [orig[j] EXCEPT !.len = staged[j].len] ELSE orig[j]]

\* A faulty mailbox_direct_reply that leaves in_use of the staging entry set.
mailbox_direct_reply_KeepsInUse(st, i, result) ==
    IF i >= NUM_MAILBOX_QUEUE_SLOT
    THEN Ev([st EXCEPT !.fault = "out_of_bounds_then_panic"], "panic")
    ELSE
    LET v == st.vectors[i]
        copy == v.in_use /\ (result = PSA_SUCCESS) /\ v.out_len > 0
        p == v.original_out_vec - 1
        st1 == IF copy
               THEN [st EXCEPT
                       !.ns_iovec[p].out = CopyLensBack(@, v.out_vec, v.out_len),
                       !.wb = @ \cup {<<p, j>> : j \in 1 .. v.out_len}]
               ELSE st
    IN IF get_nspe_reply_addr_panics(st1, i)
       THEN Ev([st1 EXCEPT !.fault = "panic"], "panic")
       ELSE mailbox_clean_queue_slot(
                Ev([st1 EXCEPT !.ns_reply[get_nspe_reply_addr(st1, i)] = ReplyWord(result)],
                   "reply_write"),
                i)

mailbox_direct_reply(st, i, result) ==
    IF i >= NUM_MAILBOX_QUEUE_SLOT
    THEN \* vectors[i] lies outside the array; get_nspe_reply_addr then panics
         Ev([st EXCEPT !.fault = "out_of_bounds_then_panic"], "panic")
    ELSE
    LET v == st.vectors[i]
        copy == v.in_use /\ (result = PSA_SUCCESS) /\ v.out_len > 0
        p == v.original_out_vec - 1
        st1 == IF copy
               THEN [st EXCEPT
                       !.ns_iovec[p].out = CopyLensBack(@, v.out_vec, v.out_len),
                       !.wb = @ \cup {<<p, j>> : j \in 1 .. v.out_len}]
               ELSE st
        st2 == [st1 EXCEPT !.vectors[i].in_use = FALSE]
    IN IF get_nspe_reply_addr_panics(st2, i)
       THEN Ev([st2 EXCEPT !.fault = "panic"], "panic")
       ELSE mailbox_clean_queue_slot(
                Ev([st2 EXCEPT !.ns_reply[get_nspe_reply_addr(st2, i)] = ReplyWord(result)],
                   "reply_write"),
                i)

check_mailbox_msg(msg) == MAILBOX_SUCCESS

\* Descriptor j (from 1) of a caller's array, zero past its end.
DescAt(arr, j) == IF j <= Len(arr) THEN arr[j] ELSE ZeroDesc

\* A faulty local_copy_vects that does not check the sum of the counts.
local_copy_vects_NoSumCheck(st0, params, i) ==
    LET st == Ev(st0, "stage") IN
    IF \/ (params.out_vec = 0 /\ params.out_len # 0)
       \/ (params.in_vec = 0 /\ params.in_len # 0)
    THEN [ret |-> MAILBOX_INVAL_PARAMS, st |-> st]
    ELSE IF \/ params.in_len > PSA_MAX_IOVEC
            \/ params.out_len > PSA_MAX_IOVEC
    THEN [ret |-> MAILBOX_INVAL_PARAMS, st |-> st]
    ELSE [ret |-> MAILBOX_SUCCESS,
          st |-> [st EXCEPT
             !.vectors[i] =
                [in_vec |-> [j \in 1 .. PSA_MAX_IOVEC |->
                                IF j <= params.in_len
                                THEN DescAt(st.ns_iovec[params.in_vec - 1].in, j)
                                ELSE ZeroDesc],
                 out_vec |-> [j \in 1 .. PSA_MAX_IOVEC |->
                                IF j <= params.out_len
                                THEN DescAt(st.ns_iovec[params.out_vec - 1].out, j)
                                ELSE ZeroDesc],
                 original_out_vec |-> params.out_vec,
                 out_len |-> params.out_len,
                 in_use |-> TRUE]]]

\* local_copy_vects(params, i, &control): [ret, st].
local_copy_vects(st0, params, i) ==
    LET st == Ev(st0, "stage") IN
    IF \/ (params.out_vec = 0 /\ params.out_len # 0)
       \/ (params.in_vec = 0 /\ params.in_len # 0)
    THEN [ret |-> MAILBOX_INVAL_PARAMS, st |-> st]
    ELSE IF \/ params.in_len > PSA_MAX_IOVEC
            \/ params.out_len > PSA_MAX_IOVEC
            \/ (params.in_len + params.out_len) > PSA_MAX_IOVEC
    THEN [ret |-> MAILBOX_INVAL_PARAMS, st |-> st]
    ELSE [ret |-> MAILBOX_SUCCESS,
          st |-> [st EXCEPT
             !.vectors[i] =
                [in_vec |-> [j \in 1 .. PSA_MAX_IOVEC |->
                                IF j <= params.in_len
                                THEN DescAt(st.ns_iovec[params.in_vec - 1].in, j)
                                ELSE ZeroDesc],
                 out_vec |-> [j \in 1 .. PSA_MAX_IOVEC |->
                                IF j <= params.out_len
                                THEN DescAt(st.ns_iovec[params.out_vec - 1].out, j)
                                ELSE ZeroDesc],
                 original_out_vec |-> params.out_vec,
                 out_len |-> params.out_len,
                 in_use |-> TRUE]]]

(***************************************************************************)
(* tfm_mailbox_dispatch(msg_ptr, i, &reply_slots).  bret is what the       *)
(* dispatch backend returns if the request is forwarded to it.             *)
(*                                                                         *)
(* The outcome of the switch: the value of sync and psa_ret at its end,    *)
(* the memory after staging, and what was done on the way.                 *)
(***************************************************************************)
Outcome(st, rejected, sync, psa_ret, forwarded) ==
    [st |-> st, rejected |-> rejected, sync |-> sync, psa_ret |-> psa_ret,
     forwarded |-> forwarded]

\* The initial value of sync.
SyncDefault == (CONFIG_TFM_SPM_BACKEND_IPC # 1)

\* A faulty Forwarded that replies to every forwarded request in the pass.
Forwarded_AlwaysSync(st, bret) ==
    Outcome(st, FALSE, TRUE, bret, TRUE)

\* A faulty Forwarded that leaves sync alone when the backend failed.
Forwarded_NeverSync(st, bret) ==
    Outcome(st, FALSE, SyncDefault, bret, TRUE)

\* A request forwarded to the backend: synchronous when the backend failed.
Forwarded(st, bret) ==
    Outcome(Ev(st, "backend"), FALSE, SyncDefault \/ (bret # PSA_SUCCESS), bret, TRUE)

\* A faulty TranslateFailed that does not set sync.
TranslateFailed_NotSync(st) ==
    Outcome(st, FALSE, SyncDefault, PSA_ERROR_INVALID_ARGUMENT, FALSE)

\* The client id translation failed.
TranslateFailed(st) ==
    Outcome(st, FALSE, TRUE, PSA_ERROR_INVALID_ARGUMENT, FALSE)

DispatchSwitch(st, msg, i, bret) ==
    CASE msg.call_type = MAILBOX_PSA_FRAMEWORK_VERSION ->
           Outcome(Ev(st, "backend"), FALSE, TRUE,
                   tfm_rpc_psa_framework_version, FALSE)
      [] msg.call_type = MAILBOX_PSA_VERSION ->
           Outcome(Ev(st, "backend"), FALSE, TRUE,
                   tfm_rpc_psa_version(msg.sid), FALSE)
      [] msg.call_type = MAILBOX_PSA_CALL ->
           LET c == local_copy_vects(st, msg, i)
           IN IF c.ret # MAILBOX_SUCCESS
              THEN Outcome(c.st, FALSE, TRUE, PSA_ERROR_INVALID_ARGUMENT, FALSE)
              ELSE IF ~ClientIdTranslates(msg.client_id)
                   THEN TranslateFailed(c.st)
                   ELSE Forwarded(c.st, bret)
      [] /\ msg.call_type \in {MAILBOX_PSA_CONNECT, MAILBOX_PSA_CLOSE}
         /\ CONFIG_TFM_CONNECTION_BASED_SERVICE_API = 1 ->
           IF ~ClientIdTranslates(msg.client_id)
           THEN TranslateFailed(st)
           ELSE Forwarded(st, bret)
      [] OTHER ->
           \* default: return MAILBOX_INVAL_PARAMS
           Outcome(st, TRUE, SyncDefault, PSA_ERROR_GENERIC_ERROR, FALSE)

\* A faulty tfm_mailbox_dispatch that replies in the pass without adding the
\* slot to reply_slots.
tfm_mailbox_dispatch_NoReplyBit(st, msg, i, bret) ==
    LET o == DispatchSwitch(st, msg, i, bret)
        log == [slot |-> i, msg |-> msg, forwarded |-> o.forwarded,
                sync |-> o.sync, psa_ret |-> o.psa_ret, rejected |-> o.rejected]
    IN IF o.rejected
       THEN [ret |-> MAILBOX_INVAL_PARAMS, st |-> o.st, replied |-> FALSE, log |-> log]
       ELSE IF o.sync
       THEN [ret |-> MAILBOX_SUCCESS, st |-> mailbox_direct_reply(o.st, i, o.psa_ret),
             replied |-> FALSE, log |-> log]
       ELSE [ret |-> MAILBOX_SUCCESS, st |-> o.st, replied |-> FALSE, log |-> log]

\* [ret, st, replied, log]: the return value, the memory afterwards, whether
\* the bit of slot i was added to reply_slots, and the record of the pass.
tfm_mailbox_dispatch(st, msg, i, bret) ==
    LET o == DispatchSwitch(st, msg, i, bret)
        log == [slot |-> i, msg |-> msg, forwarded |-> o.forwarded,
                sync |-> o.sync, psa_ret |-> o.psa_ret, rejected |-> o.rejected]
    IN IF o.rejected
       THEN [ret |-> MAILBOX_INVAL_PARAMS, st |-> o.st, replied |-> FALSE, log |-> log]
       ELSE IF o.sync
       THEN [ret |-> MAILBOX_SUCCESS, st |-> mailbox_direct_reply(o.st, i, o.psa_ret),
             replied |-> TRUE, log |-> log]
       ELSE [ret |-> MAILBOX_SUCCESS, st |-> o.st, replied |-> FALSE, log |-> log]

(***************************************************************************)
(* The connection API of the SPM (psa_connection_api.c): the data.         *)
(***************************************************************************)
TFM_HANDLE_STATUS_IDLE == 0
TFM_HANDLE_STATUS_ACTIVE == 1
TFM_HANDLE_STATUS_TO_FREE == 2
PSA_IPC_CALL == 0
PSA_IPC_CONNECT == -1
PSA_IPC_DISCONNECT == -2
PSA_NULL_HANDLE == 0
PSA_ERROR_CONNECTION_BUSY == -131

\* The number of entries of the connection pool.
CONFIG_TFM_CONN_HANDLE_MAX_NUM == 2

\* The entries of the pool; a client handle and a message handle of a
\* connection is the number of its entry.
ConnIds == 1 .. CONFIG_TFM_CONN_HANDLE_MAX_NUM

\* The NULL struct connection_t pointer.
NoConnection == 0

\* The first handle that IS_STATIC_HANDLE takes for a stateless handle.
STATIC_HANDLE_BASE == 64

\* A service of the platform: its id, whether it is stateless, whether
\* non-secure clients may access it, and its version.
Service(sid, stateless, non_secure_clients, version) ==
    [sid |-> sid, stateless |-> stateless,
     non_secure_clients |-> non_secure_clients, version |-> version]

\* The services: a stateful one open to non-secure clients, a stateless one
\* and a stateful one, both closed to non-secure clients.
ServiceTable ==
    { Service(1, FALSE, TRUE, 1),
      Service(2, TRUE, FALSE, 1),
      Service(3, FALSE, FALSE, 1) }

\* The NULL struct service_t pointer.
NoService == Service(0, FALSE, FALSE, 0)

\* The service ids the API is called with; the last one does not exist.
Sids == 1 .. 4

\* The versions the API is called with.
Versions == 1 .. 2

\* The callers of the API: a non-secure client (negative id) and a secure
\* partition (positive id).
Callers == {GoodClient, BadClient}

\* The handles close and set_rhandle are called with: the null handle, the
\* handle of every pool entry, one that is no connection's, a static one.
ConnHandles == (0 .. (CONFIG_TFM_CONN_HANDLE_MAX_NUM + 1)) \cup {STATIC_HANDLE_BASE}

\* The values set_rhandle is called with.
Rhandles == {5}

\* A pool entry that is not allocated.
FreeConnection ==
    [allocated |-> FALSE, status |-> 0, client_id |-> 0, service |-> 0,
     msg |-> [type |-> 0, rhandle |-> 0]]

\* The record of a connection API call: the call, its return value (of
\* set_rhandle: success, or a generic error for a panic) and the connection
\* pointer it left (connect: the caller's p_connection; set_rhandle: the
\* connection the message handle resolved to).
ApiResult(op, status, p_connection) ==
    [op |-> op, status |-> status, p_connection |-> p_connection]

\* forwarded_msg when the call passed nothing to backend_messaging.
NoForward == [connection |-> NoConnection, type |-> 0]

(***************************************************************************)
(* tfm_mailbox_init.  The status masks are 32 bits wide; a mask is held    *)
(* here as its two 16-bit halves, so that every slot count up to the       *)
(* width of the mask can be computed.                                      *)
(***************************************************************************)
\* The width of mailbox_queue_status_t.
STATUS_BITS == 32

\* The number of values of one half of a mask.
HALF == 2 ^ (STATUS_BITS \div 2)

MAILBOX_CALLBACK_REG_ERROR == "MAILBOX_CALLBACK_REG_ERROR"
MAILBOX_INIT_ERROR == "MAILBOX_INIT_ERROR"
TFM_RPC_SUCCESS == "TFM_RPC_SUCCESS"
TFM_RPC_CONFLICT_CALLBACK == "TFM_RPC_CONFLICT_CALLBACK"

\* What tfm_rpc_register_ops and tfm_mailbox_hal_init may return.
RegisterRets == {TFM_RPC_SUCCESS, TFM_RPC_CONFLICT_CALLBACK}
HalInitRets == {MAILBOX_SUCCESS, MAILBOX_INIT_ERROR}

\* The slot counts NUM_MAILBOX_QUEUE_SLOT a build may have.
SlotCounts == 1 .. STATUS_BITS

Mask(hi, lo) == [hi |-> hi, lo |-> lo]

\* (1UL << n), for n below the width.
ShiftOne(n) ==
    IF n < (STATUS_BITS \div 2) THEN Mask(0, 2 ^ n)
    ELSE Mask(2 ^ (n - (STATUS_BITS \div 2)), 0)

\* m - 1 in unsigned arithmetic.
MaskMinusOne(m) ==
    IF m.lo > 0 THEN Mask(m.hi, m.lo - 1)
    ELSE Mask((m.hi + HALF - 1) % HALF, HALF - 1)

\* a + b in unsigned arithmetic: [mask, carry], carry the bit lost.
MaskPlus(a, b) ==
    LET lo == a.lo + b.lo
        hi == a.hi + b.hi + (lo \div HALF)
    IN [mask |-> Mask(hi % HALF, lo % HALF), carry |-> hi \div HALF]

\* The positions of the bits set in a mask.
MaskBits(m) ==
    {i \in 0 .. (STATUS_BITS - 1) :
        IF i < (STATUS_BITS \div 2)
        THEN ((m.lo \div (2 ^ i)) % 2) = 1
        ELSE ((m.hi \div (2 ^ (i - (STATUS_BITS \div 2)))) % 2) = 1}

\* spe_mailbox_queue.empty_slots for a queue of n slots.
InitialEmptyMask(n) ==
    MaskPlus(MaskMinusOne(ShiftOne(n - 1)), ShiftOne(n - 1))

\* The machine before tfm_mailbox_init runs, for a build with n slots whose
\* spe_mailbox_queue holds the value fill in every field.
BootReset(n, fill) ==
    [stage |-> "reset", slots |-> n,
     queue |-> [i \in 0 .. (n - 1) |-> fill],
     empty_slots |-> Mask(fill, fill), carry |-> 0,
     registered |-> FALSE, register_calls |-> 0, unregister_calls |-> 0,
     hal_init_calls |-> 0, ret |-> "none"]

\* A faulty tfm_mailbox_init that leaves the callbacks registered when the
\* platform initialisation failed.
tfm_mailbox_init_NoRollback(b, reg_ret, hal_ret) ==
    LET e == InitialEmptyMask(b.slots)
        b1 == [b EXCEPT !.stage = "done",
                        !.queue = [i \in DOMAIN b.queue |-> 0],
                        !.empty_slots = e.mask, !.carry = e.carry,
                        !.register_calls = @ + 1]
    IN IF reg_ret # TFM_RPC_SUCCESS
       THEN [b1 EXCEPT !.ret = MAILBOX_CALLBACK_REG_ERROR]
       ELSE [b1 EXCEPT !.registered = TRUE, !.hal_init_calls = @ + 1,
                       !.ret = hal_ret]

\* tfm_mailbox_init(): the machine afterwards; reg_ret and hal_ret are what
\* tfm_rpc_register_ops and tfm_mailbox_hal_init return.
tfm_mailbox_init(b, reg_ret, hal_ret) ==
    LET e == InitialEmptyMask(b.slots)
        b1 == [b EXCEPT !.stage = "done",
                        !.queue = [i \in DOMAIN b.queue |-> 0],
                        !.empty_slots = e.mask, !.carry = e.carry,
                        !.register_calls = @ + 1]
    IN IF reg_ret # TFM_RPC_SUCCESS
       THEN [b1 EXCEPT !.ret = MAILBOX_CALLBACK_REG_ERROR]
       ELSE LET b2 == [b1 EXCEPT !.registered = TRUE, !.hal_init_calls = @ + 1]
            IN IF hal_ret # MAILBOX_SUCCESS
               THEN [b2 EXCEPT !.registered = FALSE, !.unregister_calls = @ + 1,
                               !.ret = hal_ret]
               ELSE [b2 EXCEPT !.ret = MAILBOX_SUCCESS]

\* boot after an initialisation that succeeded.
BootDone ==
    tfm_mailbox_init(BootReset(NUM_MAILBOX_QUEUE_SLOT, 0),
                     TFM_RPC_SUCCESS, MAILBOX_SUCCESS)

(***************************************************************************)
(* The initial state: tfm_mailbox_init has returned MAILBOX_SUCCESS.  The  *)
(* queue is zero, every slot is empty, and the platform set the number of  *)
(* non-secure slots.                                                       *)
(***************************************************************************)
\* empty_slots as tfm_mailbox_init computes it.
InitEmptySlots ==
    ((2 ^ (NUM_MAILBOX_QUEUE_SLOT - 1)) - 1) + (2 ^ (NUM_MAILBOX_QUEUE_SLOT - 1))

Result(op, slot, val) == [op |-> op, slot |-> slot, val |-> val]

InitState ==
    /\ pend_slots = 0
    /\ replied_slots = 0
    /\ ns_msg = [i \in Slots |-> ZeroMsg]
    /\ ns_reply = [i \in Slots |-> 0]
    /\ ns_iovec = [i \in Slots |-> NoIovec]
    /\ ns_slot_count \in 1 .. NUM_MAILBOX_QUEUE_SLOT
    /\ empty_slots = InitEmptySlots
    /\ queue = [i \in Slots |-> ZeroSlot]
    /\ vectors = [i \in Slots |-> ZeroVectors]
    /\ pc = "idle"
    /\ idx = 0
    /\ pend_snap = 0
    /\ reply_slots = 0
    /\ ret = Result("init", 0, MAILBOX_SUCCESS)
    /\ notify_cnt = 0
    /\ wb = {}
    /\ pass_log = << >>
    /\ fault = "none"
    /\ ns_busy = [i \in Slots |-> FALSE]
    /\ ns_fresh = [i \in Slots |-> FALSE]
    /\ redispatch = FALSE
    /\ last_set = 0
    /\ nsub = 0
    /\ cs_log = << >>
    /\ connections = [c \in ConnIds |-> FreeConnection]
    /\ api_ret = ApiResult("none", PSA_SUCCESS, NoConnection)
    /\ forwarded_msg = NoForward
    /\ api_fault = "none"

Init ==
    /\ InitState
    /\ boot = BootDone

(***************************************************************************)
(* The non-secure side.                                                    *)
(***************************************************************************)
\* Writes request r into slot i and sets the pending bit of the slot.
Queue(i, r) ==
    /\ fault = "none"
    /\ nsub < MaxSubmits
    /\ i < ns_slot_count
    /\ ns_msg' = [ns_msg EXCEPT ![i] = r.msg]
    /\ ns_iovec' = [ns_iovec EXCEPT ![i] = [in |-> r.in, out |-> r.out]]
    /\ pend_slots' = BitOr(pend_slots, 2 ^ i)
    /\ ns_busy' = [ns_busy EXCEPT ![i] = TRUE]
    /\ ns_fresh' = [ns_fresh EXCEPT ![i] = TRUE]
    /\ nsub' = nsub + 1
    /\ last_set' = i
    /\ UNCHANGED <<replied_slots, ns_reply, redispatch, secure, pass, observed,
                   cs_log, connapi, boot>>

\* A client queues a request in a slot it holds no request in.
NSSubmit(i, r) ==
    /\ ~ns_busy[i]
    /\ Queue(i, r)

\* A client queues a request in a slot whose reply it has not collected.
NSResubmit(i, r) ==
    /\ ns_busy[i]
    /\ Queue(i, r)

\* A client sees the replied bit of slot i, takes the reply, clears the bit
\* and releases the slot.
NSCollect(i) ==
    /\ fault = "none"
    /\ TestBit(replied_slots, i)
    /\ replied_slots' = BitAndNot(replied_slots, 2 ^ i)
    /\ ns_busy' = [ns_busy EXCEPT ![i] = ns_fresh[i]]
    /\ ns_msg' = [ns_msg EXCEPT ![i] = IF ns_fresh[i] THEN @ ELSE ZeroMsg]
    /\ ns_iovec' = [ns_iovec EXCEPT ![i] = IF ns_fresh[i] THEN @ ELSE NoIovec]
    /\ ns_reply' = [ns_reply EXCEPT ![i] = 0]
    /\ UNCHANGED <<pend_slots, ns_fresh, redispatch, last_set, nsub,
                   secure, pass, observed, cs_log, connapi, boot>>

(***************************************************************************)
(* tfm_mailbox_handle_msg, one action per critical section and per loop    *)
(* iteration.                                                              *)
(***************************************************************************)
\* The pending mask reads zero: return MAILBOX_NO_PEND_EVENT.
HandleMsgNoPending ==
    /\ fault = "none"
    /\ pc = "idle"
    /\ get_nspe_queue_pend_status(pend_slots) = 0
    /\ ret' = Result("handle_msg", 0, MAILBOX_NO_PEND_EVENT)
    /\ notify_cnt' = 0
    /\ wb' = {}
    /\ pass_log' = << >>
    /\ cs_log' = <<"enter", "pend_read", "exit", "return">>
    /\ UNCHANGED <<shared, secure, pass, fault, nsbook, connapi, boot>>

\* The first critical section: the snapshot of the pending mask.
HandleMsgBegin ==
    /\ fault = "none"
    /\ pc = "idle"
    /\ get_nspe_queue_pend_status(pend_slots) # 0
    /\ pend_snap' = get_nspe_queue_pend_status(pend_slots)
    /\ reply_slots' = 0
    /\ idx' = 0
    /\ pc' = "loop"
    /\ ret' = Result("handle_msg", 0, "running")
    /\ notify_cnt' = 0
    /\ wb' = {}
    /\ pass_log' = << >>
    /\ cs_log' = <<"enter", "pend_read", "exit">>
    /\ UNCHANGED <<shared, secure, fault, nsbook, connapi, boot>>

\* The loop: for (idx = 0; idx < ns_slot_count; idx++), idx a uint8_t.
LoopRuns(i) == i < ns_slot_count

\* A faulty loop step that skips a slot.
LoopNext_SkipsOne(i) == U8(i + 2)

LoopNext(i) == U8(i + 1)

\* An iteration for a slot that is not in the snapshot.
HandleMsgSkip ==
    /\ fault = "none"
    /\ pc = "loop"
    /\ LoopRuns(idx)
    /\ ~TestBit(pend_snap, idx)
    /\ idx' = LoopNext(idx)
    /\ cs_log' = << >>
    /\ UNCHANGED <<pc, pend_snap, reply_slots, shared, secure, observed, nsbook,
                   connapi, boot>>

\* A faulty SlotTaken that does not record the origin slot index.
SlotTaken_NoOrigin(st, i) ==
    Ev([st EXCEPT !.empty_slots = clear_spe_queue_empty_status(@, i),
                  !.queue[i] = [ns_slot_idx |-> 0, msg |-> ns_msg[i],
                                msg_handle |-> get_spe_mailbox_msg_handle(i).handle]],
       "empty_write")

\* The memory after the slot was marked non-empty and the message, the origin
\* slot index and the handle were stored in it.
SlotTaken(st, i) ==
    Ev([st EXCEPT !.empty_slots = clear_spe_queue_empty_status(@, i),
                  !.queue[i] = [ns_slot_idx |-> i, msg |-> ns_msg[i],
                                msg_handle |-> get_spe_mailbox_msg_handle(i).handle]],
       "empty_write")

\* A faulty HandleSlot that leaves the slot of a rejected message as it is.
HandleSlot_KeepsRejected(st, i, bret) ==
    LET taken == SlotTaken(st, i)
        d == tfm_mailbox_dispatch(taken, taken.queue[i].msg, i, bret)
    IN IF check_mailbox_msg(taken.queue[i].msg) # MAILBOX_SUCCESS
       THEN [d EXCEPT !.st = mailbox_clean_queue_slot(taken, i), !.replied = FALSE]
       ELSE d

\* The memory after the iteration of slot i, and what dispatch returned.
HandleSlot(st, i, bret) ==
    LET taken == SlotTaken(st, i)
        d == tfm_mailbox_dispatch(taken, taken.queue[i].msg, i, bret)
    IN IF check_mailbox_msg(taken.queue[i].msg) # MAILBOX_SUCCESS
       THEN [d EXCEPT !.st = mailbox_clean_queue_slot(taken, i), !.replied = FALSE]
       ELSE IF d.ret # MAILBOX_SUCCESS
       THEN [d EXCEPT !.st = mailbox_clean_queue_slot(d.st, i)]
       ELSE d

\* An iteration for a slot that is in the snapshot.
HandleMsgSlot ==
    /\ fault = "none"
    /\ pc = "loop"
    /\ LoopRuns(idx)
    /\ TestBit(pend_snap, idx)
    /\ \E bret \in BackendRets :
         LET d == HandleSlot(Memory, idx, bret)
         IN /\ vectors' = d.st.vectors
            /\ queue' = d.st.queue
            /\ empty_slots' = d.st.empty_slots
            /\ ns_reply' = d.st.ns_reply
            /\ ns_iovec' = d.st.ns_iovec
            /\ wb' = d.st.wb
            /\ fault' = d.st.fault
            /\ reply_slots' = IF d.replied THEN BitOr(reply_slots, 2 ^ idx)
                              ELSE reply_slots
            /\ pass_log' = Append(pass_log, d.log)
            /\ cs_log' = d.st.ev
    /\ idx' = LoopNext(idx)
    /\ ns_fresh' = [ns_fresh EXCEPT ![idx] = FALSE]
    /\ redispatch' = (redispatch \/ ~ns_fresh[idx])
    /\ UNCHANGED <<pc, pend_snap, pend_slots, replied_slots, ns_msg, ns_slot_count,
                   ret, notify_cnt, ns_busy, last_set, nsub, connapi, boot>>

\* A faulty HandleMsgFinish that sets the replied bit of every slot of the
\* snapshot.
HandleMsgFinish_RepliesSnapshot ==
    /\ fault = "none"
    /\ pc = "loop"
    /\ ~LoopRuns(idx)
    /\ pend_slots' = clear_nspe_queue_pend_status(pend_slots, pend_snap)
    /\ replied_slots' = set_nspe_queue_replied_status(replied_slots, pend_snap)
    /\ notify_cnt' = IF reply_slots # 0 THEN notify_cnt + 1 ELSE notify_cnt
    /\ ret' = Result("handle_msg", 0, MAILBOX_SUCCESS)
    /\ pc' = "idle"
    /\ cs_log' = <<"enter", "pend_write", "replied_write", "exit">>
                  \o (IF reply_slots # 0 THEN <<"notify">> ELSE << >>)
                  \o <<"return">>
    /\ UNCHANGED <<idx, pend_snap, reply_slots, ns_msg, ns_reply, ns_iovec,
                   secure, wb, pass_log, fault, nsbook, connapi, boot>>

\* A faulty HandleMsgFinish that notifies the peer once per replied slot.
HandleMsgFinish_NotifyPerSlot ==
    /\ fault = "none"
    /\ pc = "loop"
    /\ ~LoopRuns(idx)
    /\ pend_slots' = clear_nspe_queue_pend_status(pend_slots, pend_snap)
    /\ replied_slots' = set_nspe_queue_replied_status(replied_slots, reply_slots)
    /\ notify_cnt' = notify_cnt + Cardinality(BitsOf(reply_slots))
    /\ ret' = Result("handle_msg", 0, MAILBOX_SUCCESS)
    /\ pc' = "idle"
    /\ cs_log' = <<"enter", "pend_write", "replied_write", "exit", "return">>
    /\ UNCHANGED <<idx, pend_snap, reply_slots, ns_msg, ns_reply, ns_iovec,
                   secure, wb, pass_log, fault, nsbook, connapi, boot>>

\* The loop has ended: the closing critical section, the notification and
\* the return.
HandleMsgFinish ==
    /\ fault = "none"
    /\ pc = "loop"
    /\ ~LoopRuns(idx)
    /\ pend_slots' = clear_nspe_queue_pend_status(pend_slots, pend_snap)
    /\ replied_slots' = set_nspe_queue_replied_status(replied_slots, reply_slots)
    /\ notify_cnt' = IF reply_slots # 0 THEN notify_cnt + 1 ELSE notify_cnt
    /\ ret' = Result("handle_msg", 0, MAILBOX_SUCCESS)
    /\ pc' = "idle"
    /\ cs_log' = <<"enter", "pend_write", "replied_write", "exit">>
                  \o (IF reply_slots # 0 THEN <<"notify">> ELSE << >>)
                  \o <<"return">>
    /\ UNCHANGED <<idx, pend_snap, reply_slots, ns_msg, ns_reply, ns_iovec,
                   secure, wb, pass_log, fault, nsbook, connapi, boot>>

(***************************************************************************)
(* tfm_mailbox_reply_msg(handle, reply), called by the dispatch backend    *)
(* between drain passes.                                                   *)
(***************************************************************************)
\* The slot index the handle resolves to: [ret, idx].
ReplySlotOf(handle) ==
    IF handle = MAILBOX_MSG_NULL_HANDLE
    THEN [ret |-> MAILBOX_SUCCESS, idx |-> 0]
    ELSE get_spe_mailbox_msg_idx(handle)

ReplyMsg(handle, reply) ==
    /\ fault = "none"
    /\ pc = "idle"
    /\ LET s == ReplySlotOf(handle)
           st == mailbox_direct_reply([Memory EXCEPT !.wb = {}], s.idx, reply)
       IN IF s.ret # MAILBOX_SUCCESS
          THEN /\ ret' = Result("reply_msg", s.idx, s.ret)
               /\ notify_cnt' = 0
               /\ wb' = {}
               /\ cs_log' = <<"return">>
               /\ UNCHANGED <<shared, secure, fault>>
          ELSE IF get_spe_queue_empty_status(empty_slots, s.idx)
          THEN /\ ret' = Result("reply_msg", s.idx, MAILBOX_NO_PEND_EVENT)
               /\ notify_cnt' = 0
               /\ wb' = {}
               /\ cs_log' = <<"return">>
               /\ UNCHANGED <<shared, secure, fault>>
          ELSE /\ vectors' = st.vectors
               /\ queue' = st.queue
               /\ empty_slots' = st.empty_slots
               /\ ns_reply' = st.ns_reply
               /\ ns_iovec' = st.ns_iovec
               /\ wb' = st.wb
               /\ fault' = st.fault
               /\ IF st.fault # "none"
                  THEN /\ ret' = Result("reply_msg", s.idx, "no return")
                       /\ notify_cnt' = 0
                       /\ cs_log' = st.ev
                       /\ UNCHANGED replied_slots
                  ELSE /\ replied_slots' =
                            set_nspe_queue_replied_status(replied_slots, 2 ^ s.idx)
                       /\ notify_cnt' = 1
                       /\ ret' = Result("reply_msg", s.idx, MAILBOX_SUCCESS)
                       /\ cs_log' = st.ev \o <<"enter", "replied_write", "exit",
                                                "notify", "return">>
               /\ UNCHANGED <<pend_slots, ns_msg, ns_slot_count>>
    /\ pass_log' = << >>
    /\ UNCHANGED <<pass, nsbook, connapi, boot>>

(***************************************************************************)
(* The connection API of the SPM (psa_connection_api.c): the functions.    *)
(* The SPM functions they call are not part of these sources and are       *)
(* modelled after their contracts.                                         *)
(***************************************************************************)
\* tfm_spm_get_service_by_sid(sid): the service, NoService when none has it.
tfm_spm_get_service_by_sid(sid) ==
    IF \E sv \in ServiceTable : sv.sid = sid
    THEN CHOOSE sv \in ServiceTable : sv.sid = sid
    ELSE NoService

SERVICE_IS_STATELESS(service) == service.stateless

\* tfm_spm_check_authorization(sid, service, ns_caller)
tfm_spm_check_authorization(sid, service, ns_caller) ==
    IF ns_caller /\ ~service.non_secure_clients
    THEN PSA_ERROR_GENERIC_ERROR
    ELSE PSA_SUCCESS

\* tfm_spm_check_client_version(service, version)
tfm_spm_check_client_version(service, version) ==
    IF version > service.version THEN PSA_ERROR_GENERIC_ERROR ELSE PSA_SUCCESS

\* A faulty spm_allocate_connection that hands out the first entry again
\* when the pool is exhausted.
spm_allocate_connection_Reuses(pool) ==
    LET free == {c \in ConnIds : ~pool[c].allocated}
        c == IF free = {} THEN 1 ELSE CHOOSE f \in free : \A g \in free : f <= g
    IN [connection |-> c, pool |-> [pool EXCEPT ![c].allocated = TRUE]]

\* spm_allocate_connection(): [connection, pool], the first free entry of
\* the pool, NoConnection when every entry is allocated.
spm_allocate_connection(pool) ==
    LET free == {c \in ConnIds : ~pool[c].allocated}
    IN IF free = {}
       THEN [connection |-> NoConnection, pool |-> pool]
       ELSE LET c == CHOOSE f \in free : \A g \in free : f <= g
            IN [connection |-> c, pool |-> [pool EXCEPT ![c].allocated = TRUE]]

\* spm_init_idle_connection(connection, service, client_id)
spm_init_idle_connection(pool, c, service, client_id) ==
    [pool EXCEPT ![c] = [allocated |-> TRUE,
                         status |-> TFM_HANDLE_STATUS_IDLE,
                         client_id |-> client_id,
                         service |-> service.sid,
                         msg |-> [type |-> 0, rhandle |-> 0]]]

\* A connect call that returns before it allocates.
ConnectRefused(pool, p_connection, status) ==
    [status |-> status, pool |-> pool, p_connection |-> p_connection,
     ev |-> <<"return">>]

\* A faulty end of connect that returns from inside the critical section
\* when the pool is exhausted.
ConnectAllocate_BusyInsideSection(pool, p_connection, service, client_id) ==
    LET a == spm_allocate_connection(pool)
    IN IF a.connection = NoConnection
       THEN [status |-> PSA_ERROR_CONNECTION_BUSY, pool |-> a.pool,
             p_connection |-> p_connection,
             ev |-> <<"enter", "pool_alloc", "return">>]
       ELSE [status |-> PSA_SUCCESS,
             pool |-> [spm_init_idle_connection(a.pool, a.connection,
                                                service, client_id)
                         EXCEPT ![a.connection].msg.type = PSA_IPC_CONNECT],
             p_connection |-> a.connection,
             ev |-> <<"enter", "pool_alloc", "exit", "return">>]

\* The end of connect, once the checks have passed: the allocation inside
\* the critical section and the initialisation of the connection.
ConnectAllocate(pool, p_connection, service, client_id) ==
    LET a == spm_allocate_connection(pool)
        cs == <<"enter", "pool_alloc", "exit">>
    IN IF a.connection = NoConnection
       THEN [status |-> PSA_ERROR_CONNECTION_BUSY, pool |-> a.pool,
             p_connection |-> p_connection, ev |-> cs \o <<"return">>]
       ELSE [status |-> PSA_SUCCESS,
             pool |-> [spm_init_idle_connection(a.pool, a.connection,
                                                service, client_id)
                         EXCEPT ![a.connection].msg.type = PSA_IPC_CONNECT],
             p_connection |-> a.connection,
             ev |-> cs \o <<"return">>]

\* A faulty connect that checks the authorization before the kind of the
\* service.
spm_psa_connect_client_id_associated_AuthFirst(pool, p_connection, sid, version, client_id) ==
    LET service == tfm_spm_get_service_by_sid(sid)
        ns_caller == client_id < 0
    IN IF service = NoService
       THEN ConnectRefused(pool, p_connection, PSA_ERROR_CONNECTION_REFUSED)
       ELSE IF tfm_spm_check_authorization(sid, service, ns_caller) # PSA_SUCCESS
       THEN ConnectRefused(pool, p_connection, PSA_ERROR_CONNECTION_REFUSED)
       ELSE IF SERVICE_IS_STATELESS(service)
       THEN ConnectRefused(pool, p_connection, PSA_ERROR_PROGRAMMER_ERROR)
       ELSE IF tfm_spm_check_client_version(service, version) # PSA_SUCCESS
       THEN ConnectRefused(pool, p_connection, PSA_ERROR_CONNECTION_REFUSED)
       ELSE ConnectAllocate(pool, p_connection, service, client_id)

\* spm_psa_connect_client_id_associated(&p_connection, sid, version,
\* client_id): [status, pool, p_connection, ev].
spm_psa_connect_client_id_associated(pool, p_connection, sid, version, client_id) ==
    LET service == tfm_spm_get_service_by_sid(sid)
        ns_caller == client_id < 0
    IN IF service = NoService
       THEN ConnectRefused(pool, p_connection, PSA_ERROR_CONNECTION_REFUSED)
       ELSE IF SERVICE_IS_STATELESS(service)
       THEN ConnectRefused(pool, p_connection, PSA_ERROR_PROGRAMMER_ERROR)
       ELSE IF tfm_spm_check_authorization(sid, service, ns_caller) # PSA_SUCCESS
       THEN ConnectRefused(pool, p_connection, PSA_ERROR_CONNECTION_REFUSED)
       ELSE IF tfm_spm_check_client_version(service, version) # PSA_SUCCESS
       THEN ConnectRefused(pool, p_connection, PSA_ERROR_CONNECTION_REFUSED)
       ELSE ConnectAllocate(pool, p_connection, service, client_id)

\* tfm_spm_client_psa_connect(sid, version) called by client_id; bret is
\* what backend_messaging returns.
ClientPsaConnect(sid, version, client_id, bret) ==
    /\ api_fault = "none"
    /\ LET r == spm_psa_connect_client_id_associated(
                    connections, NoConnection, sid, version, client_id)
           c == r.p_connection
       IN IF r.status # PSA_SUCCESS
          THEN /\ connections' = r.pool
               /\ api_ret' = ApiResult("connect", r.status, r.p_connection)
               /\ forwarded_msg' = NoForward
               /\ cs_log' = r.ev
          ELSE /\ forwarded_msg' = [connection |-> c, type |-> r.pool[c].msg.type]
               /\ connections' = [r.pool EXCEPT ![c].status = TFM_HANDLE_STATUS_ACTIVE]
               /\ api_ret' = ApiResult("connect", bret, c)
               /\ cs_log' = r.ev \o <<"backend", "return">>
    /\ UNCHANGED <<shared, secure, pass, observed, nsbook, api_fault, boot>>

IS_STATIC_HANDLE(handle) == handle >= STATIC_HANDLE_BASE

\* A faulty spm_get_idle_connection that does not compare the client id.
spm_get_idle_connection_AnyClient(pool, handle, client_id) ==
    IF (handle \in ConnIds) /\ pool[handle].allocated
    THEN [status |-> PSA_SUCCESS, connection |-> handle]
    ELSE [status |-> PSA_ERROR_PROGRAMMER_ERROR, connection |-> NoConnection]

\* spm_get_idle_connection(&p_connection, handle, client_id): [status,
\* connection], the connection of the handle when it is one of client_id.
spm_get_idle_connection(pool, handle, client_id) ==
    IF /\ handle \in ConnIds
       /\ pool[handle].allocated
       /\ pool[handle].client_id = client_id
    THEN [status |-> PSA_SUCCESS, connection |-> handle]
    ELSE [status |-> PSA_ERROR_PROGRAMMER_ERROR, connection |-> NoConnection]

\* A close call that returns before it resolves the handle.
CloseReturns(pool, status) ==
    [status |-> status, pool |-> pool, forwarded |-> NoForward]

\* The end of close for a handle that is neither null nor static: the
\* lookup, the disconnect message and the new status.
CloseConnection(pool, handle, client_id, bret) ==
    LET l == spm_get_idle_connection(pool, handle, client_id)
        c == l.connection
    IN IF l.status # PSA_SUCCESS
       THEN CloseReturns(pool, l.status)
       ELSE [status |-> bret,
             pool |-> [pool EXCEPT ![c].msg.type = PSA_IPC_DISCONNECT,
                                   ![c].status = TFM_HANDLE_STATUS_TO_FREE],
             forwarded |-> [connection |-> c, type |-> PSA_IPC_DISCONNECT]]

\* A faulty close that looks the null handle up like any other handle.
spm_psa_close_client_id_associated_NoNullCheck(pool, handle, client_id, bret) ==
    IF IS_STATIC_HANDLE(handle)
    THEN CloseReturns(pool, PSA_ERROR_PROGRAMMER_ERROR)
    ELSE CloseConnection(pool, handle, client_id, bret)

\* spm_psa_close_client_id_associated(handle, client_id): [status, pool,
\* forwarded]; bret is what backend_messaging returns.
spm_psa_close_client_id_associated(pool, handle, client_id, bret) ==
    IF handle = PSA_NULL_HANDLE
    THEN CloseReturns(pool, PSA_SUCCESS)
    ELSE IF IS_STATIC_HANDLE(handle)
    THEN CloseReturns(pool, PSA_ERROR_PROGRAMMER_ERROR)
    ELSE CloseConnection(pool, handle, client_id, bret)

\* tfm_spm_client_psa_close(handle) called by client_id.
ClientPsaClose(handle, client_id, bret) ==
    /\ api_fault = "none"
    /\ LET r == spm_psa_close_client_id_associated(connections, handle, client_id, bret)
       IN /\ connections' = r.pool
          /\ forwarded_msg' = r.forwarded
          /\ api_ret' = ApiResult("close", r.status, NoConnection)
          /\ cs_log' = IF r.forwarded = NoForward THEN <<"return">>
                       ELSE <<"backend", "return">>
    /\ UNCHANGED <<shared, secure, pass, observed, nsbook, api_fault, boot>>

\* spm_msg_handle_to_connection(msg_handle): the connection, NoConnection
\* when the handle is not one of a message.
spm_msg_handle_to_connection(pool, msg_handle) ==
    IF (msg_handle \in ConnIds) /\ pool[msg_handle].allocated
    THEN msg_handle
    ELSE NoConnection

\* A faulty set_rhandle that does not look at the kind of the service.
tfm_spm_partition_psa_set_rhandle_AnyService(pool, msg_handle, rhandle) ==
    LET handle == spm_msg_handle_to_connection(pool, msg_handle)
    IN IF handle = NoConnection
       THEN [panic |-> TRUE, pool |-> pool, handle |-> handle]
       ELSE [panic |-> FALSE, handle |-> handle,
             pool |-> [pool EXCEPT ![handle].msg.rhandle = rhandle]]

\* tfm_spm_partition_psa_set_rhandle(msg_handle, rhandle): [panic, pool,
\* handle], handle the connection the message handle resolved to.
tfm_spm_partition_psa_set_rhandle(pool, msg_handle, rhandle) ==
    LET handle == spm_msg_handle_to_connection(pool, msg_handle)
    IN IF handle = NoConnection
       THEN [panic |-> TRUE, pool |-> pool, handle |-> handle]
       ELSE IF SERVICE_IS_STATELESS(tfm_spm_get_service_by_sid(pool[handle].service))
       THEN [panic |-> TRUE, pool |-> pool, handle |-> handle]
       ELSE [panic |-> FALSE, handle |-> handle,
             pool |-> [pool EXCEPT ![handle].msg.rhandle = rhandle]]

PartitionSetRhandle(msg_handle, rhandle) ==
    /\ api_fault = "none"
    /\ LET r == tfm_spm_partition_psa_set_rhandle(connections, msg_handle, rhandle)
       IN /\ connections' = r.pool
          /\ api_fault' = IF r.panic THEN "panic" ELSE "none"
          /\ api_ret' = ApiResult("set_rhandle",
                                  IF r.panic THEN PSA_ERROR_GENERIC_ERROR
                                  ELSE PSA_SUCCESS,
                                  r.handle)
          /\ cs_log' = IF r.panic THEN <<"panic">> ELSE <<"return">>
    /\ forwarded_msg' = NoForward
    /\ UNCHANGED <<shared, secure, pass, observed, nsbook, boot>>

\* The SPM delivers a request for the stateless service to its partition:
\* the message of the request lives in a connection of the pool.
StatelessRequest(client_id) ==
    /\ api_fault = "none"
    /\ LET a == spm_allocate_connection(connections)
           sv == CHOOSE s \in ServiceTable : s.stateless
       IN /\ a.connection # NoConnection
          /\ connections' =
                [spm_init_idle_connection(a.pool, a.connection, sv, client_id)
                   EXCEPT ![a.connection].msg.type = PSA_IPC_CALL,
                          ![a.connection].status = TFM_HANDLE_STATUS_ACTIVE]
    /\ UNCHANGED <<shared, secure, pass, observed, nsbook, cs_log,
                   api_ret, forwarded_msg, api_fault, boot>>

\* The backend has completed a disconnect, or the reply of a stateless
\* request: the connection goes back to the pool.
BackendFrees(c) ==
    /\ api_fault = "none"
    /\ connections[c].allocated
    /\ \/ connections[c].status = TFM_HANDLE_STATUS_TO_FREE
       \/ connections[c].msg.type = PSA_IPC_CALL
    /\ connections' = [connections EXCEPT ![c] = FreeConnection]
    /\ UNCHANGED <<shared, secure, pass, observed, nsbook, cs_log,
                   api_ret, forwarded_msg, api_fault, boot>>

(***************************************************************************)
(* Start-up: tfm_inter_core_comm_init calls tfm_mailbox_init once.         *)
(***************************************************************************)
MailboxInit(reg_ret, hal_ret) ==
    /\ boot.stage = "reset"
    /\ boot' = tfm_mailbox_init(boot, reg_ret, hal_ret)
    /\ UNCHANGED <<shared, secure, pass, observed, nsbook, cs_log, connapi>>

(***************************************************************************)
(* The specifications.  In Spec the non-secure side follows the protocol   *)
(* of the mailbox: a slot holds one request until its reply is collected.  *)
(* In SpecUntrusted it also queues requests in slots it still holds.       *)
(***************************************************************************)
Next ==
    \/ \E i \in Slots : \E r \in Requests(i) : NSSubmit(i, r)
    \/ \E i \in Slots : NSCollect(i)
    \/ HandleMsgNoPending
    \/ HandleMsgBegin
    \/ HandleMsgSkip
    \/ HandleMsgSlot
    \/ HandleMsgFinish
    \/ \E h \in Handles : \E r \in ReplyVals : ReplyMsg(h, r)

Spec == Init /\ [][Next]_vars

NextUntrusted ==
    \/ Next
    \/ \E i \in Slots : \E r \in Requests(i) : NSResubmit(i, r)

SpecUntrusted == Init /\ [][NextUntrusted]_vars

\* The connection API, called by the layer that handles PSA client calls,
\* and the backend that completes the requests.
NextConn ==
    \/ \E sid \in Sids : \E v \in Versions : \E c \in Callers : \E b \in BackendRets :
          ClientPsaConnect(sid, v, c, b)
    \/ \E h \in ConnHandles : \E c \in Callers : \E b \in BackendRets :
          ClientPsaClose(h, c, b)
    \/ \E h \in ConnHandles : \E r \in Rhandles : PartitionSetRhandle(h, r)
    \/ \E c \in Callers : StatelessRequest(c)
    \/ \E c \in ConnIds : BackendFrees(c)

SpecConn == Init /\ [][NextConn]_vars

\* The mailbox engine and the connection API together.  They share no
\* variable, and a behaviour runs one of them: the engine while the
\* connection API has not been called, the connection API while the engine
\* has not run.
ConnQuiet ==
    /\ api_ret.op = "none"
    /\ connections = [c \in ConnIds |-> FreeConnection]

MailboxQuiet ==
    /\ ret.op = "init"
    /\ nsub = 0

NextSections ==
    \/ \E i \in Slots : \E r \in Requests(i) : ConnQuiet /\ NSSubmit(i, r)
    \/ \E i \in Slots : ConnQuiet /\ NSCollect(i)
    \/ ConnQuiet /\ HandleMsgNoPending
    \/ ConnQuiet /\ HandleMsgBegin
    \/ ConnQuiet /\ HandleMsgSkip
    \/ ConnQuiet /\ HandleMsgSlot
    \/ ConnQuiet /\ HandleMsgFinish
    \/ \E h \in Handles : \E r \in ReplyVals : ConnQuiet /\ ReplyMsg(h, r)
    \/ \E sid \in Sids : \E v \in Versions : \E c \in Callers : \E b \in BackendRets :
          MailboxQuiet /\ ClientPsaConnect(sid, v, c, b)
    \/ \E h \in ConnHandles : \E c \in Callers : \E b \in BackendRets :
          MailboxQuiet /\ ClientPsaClose(h, c, b)
    \/ \E h \in ConnHandles : \E r \in Rhandles :
          MailboxQuiet /\ PartitionSetRhandle(h, r)
    \/ \E c \in Callers : MailboxQuiet /\ StatelessRequest(c)
    \/ \E c \in ConnIds : MailboxQuiet /\ BackendFrees(c)

SpecSections == Init /\ [][NextSections]_vars

\* Start-up, for every slot count a build may have and whatever the memory
\* of the queue holds when tfm_mailbox_init runs.
InitBoot ==
    /\ InitState
    /\ boot \in {BootReset(n, fill) : n \in SlotCounts, fill \in 0 .. 1}

NextBoot == \E reg_ret \in RegisterRets : \E hal_ret \in HalInitRets :
                MailboxInit(reg_ret, hal_ret)

SpecBoot == InitBoot /\ [][NextBoot]_vars

(***************************************************************************)
(* Staging and reply of stateless calls.  The non-secure side queues one   *)
(* stateless call at a time, with every combination of vector counts up to *)
(* one more than PSA_MAX_IOVEC, and with null descriptor arrays; a pass    *)
(* stages it, the service writes its outputs and the call is replied to.   *)
(***************************************************************************)
\* The vector counts a caller declares.
VecLens == 0 .. (PSA_MAX_IOVEC + 1)

\* The number of bytes a service leaves in an output of three bytes.
BytesWritten == 1

\* A stateless call of slot i with inl input and outl output vectors; a
\* descriptor array is null when its flag says so.  The caller's output
\* array holds one descriptor more than the call declares.
CallRequest(i, inl, outl, in_null, out_null) ==
    Request(MailboxMsg(MAILBOX_PSA_CALL, GoodClient, 0, 0, SomeHandle, inl, outl,
                       IF in_null THEN 0 ELSE i + 1,
                       IF out_null THEN 0 ELSE i + 1),
            IF in_null THEN << >> ELSE [j \in 1 .. inl |-> Desc(1, 2)],
            IF out_null THEN << >> ELSE [j \in 1 .. (outl + 1) |-> Desc(2, 3)])

\* The calls queued in slot i: every pair of vector counts with both arrays
\* present, and the short ones with one or both arrays null.
CallRequests(i) ==
    {CallRequest(i, inl, outl, FALSE, FALSE) : inl \in VecLens, outl \in VecLens}
    \cup
    {CallRequest(i, inl, outl, in_null, out_null) :
        inl \in 0 .. 1, outl \in 0 .. 1,
        in_null \in BOOLEAN, out_null \in BOOLEAN}

\* No request is queued, in a pass or waiting for its reply to be collected.
MailboxIdle ==
    /\ pc = "idle"
    /\ pend_slots = 0
    /\ replied_slots = 0
    /\ empty_slots = InitEmptySlots

\* A client queues a stateless call while the mailbox is idle.
StageSubmit(i, r) ==
    /\ MailboxIdle
    /\ NSSubmit(i, r)

\* The service of the deferred call of slot i writes output j: the SPM
\* records the bytes written in the staged output descriptor, which
\* tfm_mailbox_dispatch passed to it as p_outvecs.
ServiceWrites(i, j) ==
    /\ fault = "none"
    /\ pc = "idle"
    /\ ~get_spe_queue_empty_status(empty_slots, i)
    /\ vectors[i].in_use
    /\ j <= vectors[i].out_len
    /\ vectors[i].out_vec[j].len > BytesWritten
    /\ vectors' = [vectors EXCEPT ![i].out_vec[j].len = BytesWritten]
    /\ UNCHANGED <<shared, ns_slot_count, empty_slots, queue, pass, observed,
                   nsbook, cs_log, connapi, boot>>

\* The backend replies to the deferred call of slot i with its handle.
ServiceReplies(i, reply) ==
    /\ ~get_spe_queue_empty_status(empty_slots, i)
    /\ ReplyMsg(get_spe_mailbox_msg_handle(i).handle, reply)

NextStage ==
    \/ \E i \in Slots : \E r \in CallRequests(i) : StageSubmit(i, r)
    \/ \E i \in Slots : NSCollect(i)
    \/ HandleMsgBegin
    \/ HandleMsgSkip
    \/ HandleMsgSlot
    \/ HandleMsgFinish
    \/ \E i \in Slots : \E j \in 1 .. PSA_MAX_IOVEC : ServiceWrites(i, j)
    \/ \E i \in Slots : \E r \in ReplyVals : ServiceReplies(i, r)

SpecStage == Init /\ [][NextStage]_vars

(***************************************************************************)
(* The mailbox with its scheduling.  A drain pass that has work is started *)
(* and runs to its end: tfm_mailbox_handle_msg is called on the            *)
(* notification of the non-secure side and is one function call.  The      *)
(* backend replies to a request it deferred, with the handle it was given  *)
(* or the null handle, and may reply once more, to a slot already empty.   *)
(***************************************************************************)
\* The handles the backend replies with.
ReplyHandles == 0 .. NUM_MAILBOX_QUEUE_SLOT

NextLive ==
    \/ \E i \in Slots : \E r \in Requests(i) : NSSubmit(i, r)
    \/ \E i \in Slots : NSCollect(i)
    \/ HandleMsgNoPending
    \/ HandleMsgBegin
    \/ HandleMsgSkip
    \/ HandleMsgSlot
    \/ HandleMsgFinish
    \/ \E h \in ReplyHandles : \E r \in ReplyVals : ReplyMsg(h, r)

\* The loop variable after an iteration for a slot of the snapshot: the
\* steps of HandleMsgSlot, as seen on idx.
SlotIteration ==
    /\ fault = "none"
    /\ pc = "loop"
    /\ LoopRuns(idx)
    /\ TestBit(pend_snap, idx)
    /\ idx' = LoopNext(idx)

\* The pass is started when a slot is pending and runs to its end; the
\* backend replies to every request it deferred.
FairLive ==
    /\ WF_vars(HandleMsgBegin \/ HandleMsgSkip \/ HandleMsgFinish)
    /\ WF_idx(SlotIteration)
    /\ \A i \in Slots : SF_vars(\E r \in ReplyVals : ServiceReplies(i, r))

SpecLive == Init /\ [][NextLive]_vars /\ FairLive

(***************************************************************************)
(* Properties.                                                             *)
(***************************************************************************)
\* The records of the slots the last drain pass dispatched.
Logged == {pass_log[k] : k \in 1 .. Len(pass_log)}

\* The step that ends a drain pass (the closing critical section).
PassEnds == (pc = "loop") /\ (pc' = "idle")

\* The slots of the snapshot the loop of a pass visits.
SnapshotSlots == {i \in BitsOf(pend_snap) : i < ns_slot_count}

\* A request the backend took over and will answer through
\* tfm_mailbox_reply_msg.
Deferred(l) == l.forwarded /\ (l.psa_ret = PSA_SUCCESS)

\* C1: every time the non-secure side sets the pending bit of a slot, at any
\* time relative to a drain pass, the request is dispatched exactly once: a
\* request no pass has copied still has its pending bit, and no pass copies
\* a slot that holds no new request.
C1_EverySetDispatchedOnce ==
    /\ \A i \in Slots : ns_fresh[i] => TestBit(pend_slots, i)
    /\ ~redispatch

\* C2: at the end of a drain pass the replied bits that were added are those
\* of the slots that were replied to in the pass; a deferred slot gets no
\* replied bit and stays non-empty, holding its handle; and a non-empty
\* secure slot becomes empty again only by tfm_mailbox_reply_msg called with
\* a handle of that slot, which sets its replied bit.
C2_RepliedOnlyForSynchronous ==
    [][ /\ PassEnds =>
             /\ BitsOf(replied_slots') =
                   BitsOf(replied_slots) \cup
                      {l.slot : l \in {k \in Logged : k.sync /\ ~k.rejected}}
             /\ \A l \in Logged : Deferred(l) =>
                   /\ ~TestBit(replied_slots', l.slot)
                   /\ ~TestBit(empty_slots', l.slot)
                   /\ queue'[l.slot].msg_handle = l.slot + 1
        /\ \A i \in Slots :
             (~TestBit(empty_slots, i) /\ TestBit(empty_slots', i)) =>
                  /\ pc = "idle"
                  /\ ret' = Result("reply_msg", i, MAILBOX_SUCCESS)
                  /\ TestBit(replied_slots', i)
                  /\ \E h \in Handles, r \in ReplyVals :
                        /\ U8(h - 1) = i \/ (h = MAILBOX_MSG_NULL_HANDLE /\ i = 0)
                        /\ ns_reply'[i] = ReplyWord(r)
      ]_vars

\* C2 witness: a pass has ended in which slot 0 was answered (a version
\* query) and slot 1 (a connect) was deferred by the backend.
C2_Witness ==
    /\ pc = "idle"
    /\ ret = Result("handle_msg", 0, MAILBOX_SUCCESS)
    /\ Len(pass_log) = 2
    /\ pass_log[1].msg.call_type = MAILBOX_PSA_VERSION
    /\ pass_log[2].msg.call_type = MAILBOX_PSA_CONNECT
    /\ Deferred(pass_log[2])
    /\ TestBit(replied_slots, 0)
    /\ ~TestBit(replied_slots, 1)
    /\ ~TestBit(empty_slots, 1)

\* C3: a framework-version query or version query that a drain pass
\* dispatches is answered in that pass: the pass returns MAILBOX_SUCCESS,
\* the reply word of the slot is the value of the version lookup, the
\* replied bit of the slot is set and the secure slot is zero and empty.
C3_VersionQueriesAnswered ==
    [][ PassEnds =>
          \A l \in Logged :
             l.msg.call_type \in {MAILBOX_PSA_FRAMEWORK_VERSION, MAILBOX_PSA_VERSION} =>
                /\ ret' = Result("handle_msg", 0, MAILBOX_SUCCESS)
                /\ ns_reply'[l.slot] =
                      IF l.msg.call_type = MAILBOX_PSA_FRAMEWORK_VERSION
                      THEN ReplyWord(PSA_FRAMEWORK_VERSION)
                      ELSE ReplyWord(IF l.msg.sid = SomeSid THEN 1 ELSE 0)
                /\ TestBit(replied_slots', l.slot)
                /\ TestBit(empty_slots', l.slot)
                /\ queue'[l.slot] = ZeroSlot
      ]_vars

\* C3 witness: a pass has ended that answered the framework-version query
\* of slot 0.
C3_Witness ==
    /\ pc = "idle"
    /\ ret = Result("handle_msg", 0, MAILBOX_SUCCESS)
    /\ Len(pass_log) = 1
    /\ pass_log[1].slot = 0
    /\ pass_log[1].msg.call_type = MAILBOX_PSA_FRAMEWORK_VERSION
    /\ ns_reply[0] = PSA_FRAMEWORK_VERSION
    /\ replied_slots = 1
    /\ TestBit(empty_slots, 0)
    /\ notify_cnt = 1

\* C4: a drain pass calls tfm_mailbox_hal_notify_peer once when it replied
\* to at least one slot, however many, and not at all when it replied to
\* none; and tfm_mailbox_handle_msg called while the pending mask is zero
\* returns MAILBOX_NO_PEND_EVENT, notifies nobody and changes no bitmask and
\* no slot.
C4_OneNotificationPerPass ==
    [][ /\ PassEnds =>
             notify_cnt' = IF \E l \in Logged : l.sync /\ ~l.rejected
                           THEN 1 ELSE 0
        /\ (pc = "loop") => (notify_cnt = 0)
        /\ (pc = "idle" /\ pend_slots = 0 /\ (HandleMsgNoPending \/ HandleMsgBegin)) =>
             /\ ret' = Result("handle_msg", 0, MAILBOX_NO_PEND_EVENT)
             /\ notify_cnt' = 0
             /\ pc' = "idle"
             /\ UNCHANGED <<shared, secure>>
      ]_vars

\* C4 witness: a pass has ended that replied to both slots and notified
\* the peer once.
C4_Witness ==
    /\ pc = "idle"
    /\ ret = Result("handle_msg", 0, MAILBOX_SUCCESS)
    /\ Len(pass_log) = 2
    /\ pass_log[1].sync /\ pass_log[2].sync
    /\ replied_slots = 3
    /\ notify_cnt = 1

\* C4 witness of the poll path: handle_msg has returned
\* MAILBOX_NO_PEND_EVENT while a reply was waiting to be collected.
C4_WitnessNoPending ==
    /\ ret = Result("handle_msg", 0, MAILBOX_NO_PEND_EVENT)
    /\ replied_slots # 0
    /\ notify_cnt = 0

\* C5: a drain pass dispatches the slots of its snapshot in strictly
\* increasing slot order, each once, whatever the order in which their
\* pending bits were set.
C5_IncreasingSlotOrder ==
    /\ \A a, b \in 1 .. Len(pass_log) : a < b => pass_log[a].slot < pass_log[b].slot
    /\ (pc = "loop" /\ ~LoopRuns(idx)) => {l.slot : l \in Logged} = SnapshotSlots
    /\ (pc = "loop") => {l.slot : l \in Logged} = {i \in SnapshotSlots : i < idx}

\* C5 witness: the pending bit of slot 1 was set before that of slot 0, and
\* the pass dispatched slot 0 and then slot 1.
C5_Witness ==
    /\ pc = "loop"
    /\ ~LoopRuns(idx)
    /\ last_set = 0
    /\ nsub = 2
    /\ Len(pass_log) = 2
    /\ pass_log[1].slot = 0
    /\ pass_log[2].slot = 1

\* C6: every request the non-secure side makes pending, whatever its call
\* type, gets a status written to its reply area and its replied bit set, and
\* no drain pass aborts: between passes every slot that holds a request is
\* still pending, in flight in the backend, or replied.
C6_EveryRequestAnswered ==
    /\ (pc = "idle") =>
          \A i \in Slots :
             ns_busy[i] => \/ TestBit(pend_slots, i)
                           \/ ~TestBit(empty_slots, i)
                           \/ TestBit(replied_slots, i)
    /\ (fault # "none") => (ret.op = "reply_msg")

\* The slot tfm_mailbox_reply_msg resolves handle h to.
SlotOfHandle(h) == IF h = MAILBOX_MSG_NULL_HANDLE THEN 0 ELSE (h - 1) % 256

\* C7: tfm_mailbox_reply_msg called for a slot whose empty bit is set
\* returns MAILBOX_NO_PEND_EVENT, writes no reply word, sets no replied bit
\* and does not notify; and a call that delivers a reply leaves the empty
\* bit set, so that a second call for the same handle is rejected.
C7_ReplyToEmptySlotRejected ==
    [][ \A h \in Handles, r \in ReplyVals :
          LET i == SlotOfHandle(h)
          IN /\ (ReplyMsg(h, r) /\ i < NUM_MAILBOX_QUEUE_SLOT /\ TestBit(empty_slots, i)) =>
                   /\ ret' = Result("reply_msg", i, MAILBOX_NO_PEND_EVENT)
                   /\ notify_cnt' = 0
                   /\ wb' = {}
                   /\ UNCHANGED <<shared, secure, fault>>
             /\ (ReplyMsg(h, r) /\ ret'.val = MAILBOX_SUCCESS) =>
                   /\ ~TestBit(empty_slots, i)
                   /\ TestBit(empty_slots', i)
      ]_vars

\* C7 witness: a reply was delivered to slot 0 (only tfm_mailbox_reply_msg
\* writes PSA_ERROR_GENERIC_ERROR) and another call for slot 0 was rejected.
C7_Witness ==
    /\ ret = Result("reply_msg", 0, MAILBOX_NO_PEND_EVENT)
    /\ ns_reply[0] = ReplyWord(PSA_ERROR_GENERIC_ERROR)
    /\ TestBit(replied_slots, 0)
    /\ TestBit(empty_slots, 0)
    /\ notify_cnt = 0

\* C8: the handle of slot k decodes to k, the null handle does not decode,
\* and tfm_mailbox_reply_msg fails with MAILBOX_INVAL_PARAMS and changes
\* nothing for every handle above NUM_MAILBOX_QUEUE_SLOT.
C8_HandleDecoding ==
    /\ \A k \in Slots :
          get_spe_mailbox_msg_idx(get_spe_mailbox_msg_handle(k).handle)
             = [ret |-> MAILBOX_SUCCESS, idx |-> k]
    /\ get_spe_mailbox_msg_idx(MAILBOX_MSG_NULL_HANDLE).ret = MAILBOX_INVAL_PARAMS
    /\ [][ \A h \in Handles, r \in ReplyVals :
             (h > NUM_MAILBOX_QUEUE_SLOT /\ ReplyMsg(h, r)) =>
                /\ ret'.val = MAILBOX_INVAL_PARAMS
                /\ UNCHANGED <<shared, secure, fault>>
         ]_vars

\* C9: when the client id of a stateless call, a connect or a close does not
\* translate, the pass replies PSA_ERROR_INVALID_ARGUMENT to the slot and
\* sets its replied bit, the backend is not invoked, and the staging entry
\* of the slot is not in use and no output length was written back.
C9_TranslationFailureReplied ==
    [][ PassEnds =>
          \A l \in Logged :
             ( /\ l.msg.call_type \in {MAILBOX_PSA_CALL, MAILBOX_PSA_CONNECT, MAILBOX_PSA_CLOSE}
               /\ ~ClientIdTranslates(l.msg.client_id) ) =>
                /\ ns_reply'[l.slot] = ReplyWord(PSA_ERROR_INVALID_ARGUMENT)
                /\ TestBit(replied_slots', l.slot)
                /\ TestBit(empty_slots', l.slot)
                /\ ~l.forwarded
                /\ ~vectors'[l.slot].in_use
                /\ \A w \in wb' : w[1] # l.slot
      ]_vars

\* C9 witness: a pass has ended that replied to the stateless call of slot 0,
\* whose vectors it had staged and whose client id did not translate.
C9_Witness ==
    /\ pc = "idle"
    /\ ret = Result("handle_msg", 0, MAILBOX_SUCCESS)
    /\ Len(pass_log) = 1
    /\ pass_log[1].slot = 0
    /\ pass_log[1].msg.call_type = MAILBOX_PSA_CALL
    /\ pass_log[1].msg.client_id = BadClient
    /\ vectors[0].out_len = 1
    /\ ~vectors[0].in_use
    /\ ns_reply[0] = ReplyWord(PSA_ERROR_INVALID_ARGUMENT)
    /\ TestBit(replied_slots, 0)

\* TRUE when the vectors of message m cannot be staged.
StagingFails(m) ==
    \/ (m.out_vec = 0 /\ m.out_len # 0)
    \/ (m.in_vec = 0 /\ m.in_len # 0)
    \/ m.in_len > PSA_MAX_IOVEC
    \/ m.out_len > PSA_MAX_IOVEC
    \/ m.in_len + m.out_len > PSA_MAX_IOVEC

\* C10 as claimed: a stateless call is replied to in the drain pass only if
\* staging or client id translation fails; otherwise it is forwarded to the
\* backend and the pass produces no reply for it.
C10_SyncOnlyOnStagingOrTranslation ==
    [][ PassEnds =>
          \A l \in Logged :
             (l.msg.call_type = MAILBOX_PSA_CALL) =>
                IF StagingFails(l.msg) \/ ~ClientIdTranslates(l.msg.client_id)
                THEN TestBit(replied_slots', l.slot)
                ELSE /\ l.forwarded
                     /\ ~TestBit(replied_slots', l.slot)
                     /\ ~TestBit(empty_slots', l.slot)
      ]_vars

\* C10 amended: a stateless call is replied to in the drain pass only if
\* staging fails, client id translation fails, or the backend returns a
\* status other than PSA_SUCCESS when the call is forwarded to it (that status
\* is then the reply); otherwise the call was forwarded and the pass produces
\* no reply for it.
C10_SyncAlsoOnBackendError ==
    [][ PassEnds =>
          \A l \in Logged :
             (l.msg.call_type = MAILBOX_PSA_CALL) =>
                IF StagingFails(l.msg) \/ ~ClientIdTranslates(l.msg.client_id)
                THEN /\ ~l.forwarded
                     /\ TestBit(replied_slots', l.slot)
                     /\ ns_reply'[l.slot] = ReplyWord(PSA_ERROR_INVALID_ARGUMENT)
                ELSE /\ l.forwarded
                     /\ IF l.psa_ret # PSA_SUCCESS
                        THEN /\ TestBit(replied_slots', l.slot)
                             /\ TestBit(empty_slots', l.slot)
                             /\ ns_reply'[l.slot] = ReplyWord(l.psa_ret)
                        ELSE /\ ~TestBit(replied_slots', l.slot)
                             /\ ~TestBit(empty_slots', l.slot)
                             /\ vectors'[l.slot].in_use
      ]_vars

\* C10 witness: a pass has ended that forwarded the stateless call of slot 0
\* to the backend, which returned an error, and replied that error.
C10_Witness ==
    /\ pc = "idle"
    /\ ret = Result("handle_msg", 0, MAILBOX_SUCCESS)
    /\ Len(pass_log) = 1
    /\ pass_log[1].slot = 0
    /\ pass_log[1].msg.call_type = MAILBOX_PSA_CALL
    /\ pass_log[1].forwarded
    /\ pass_log[1].psa_ret = PSA_ERROR_PROGRAMMER_ERROR
    /\ ns_reply[0] = ReplyWord(PSA_ERROR_PROGRAMMER_ERROR)
    /\ TestBit(replied_slots, 0)
    /\ TestBit(empty_slots, 0)

(***************************************************************************)
(* Properties of the connection API.                                       *)
(***************************************************************************)
\* The service ids of the platform.
KnownSids == {sv.sid : sv \in ServiceTable}

\* The service with id sid.
ServiceOf(sid) == CHOOSE sv \in ServiceTable : sv.sid = sid

\* The connections of the pool that are allocated.
Allocated == {k \in ConnIds : connections[k].allocated}

\* caller is not authorized for the service of sid, or version is not one
\* the service supports.
Unwelcome(sid, version, caller) ==
    \/ (caller < 0) /\ ~ServiceOf(sid).non_secure_clients
    \/ version > ServiceOf(sid).version

\* A call that allocated nothing, left the pool alone, passed nothing to
\* the backend and left no connection pointer.
NothingAllocated ==
    /\ connections' = connections
    /\ forwarded_msg' = NoForward
    /\ api_ret'.p_connection = NoConnection

\* C11: a connect that fails a check made before the allocation allocates
\* no connection and leaves the pool unchanged; it returns
\* PSA_ERROR_CONNECTION_REFUSED when no service has the id,
\* PSA_ERROR_PROGRAMMER_ERROR when the service is stateless (whoever calls,
\* whatever the version), and PSA_ERROR_CONNECTION_REFUSED when a stateful
\* service does not admit the caller or the version; no connect gives a
\* connection to a stateless service.
C11_ConnectChecksBeforeAllocation ==
    [][\A sid \in Sids : \A v \in Versions : \A c \in Callers : \A b \in BackendRets :
         ClientPsaConnect(sid, v, c, b) =>
           /\ (sid \notin KnownSids) =>
                 /\ api_ret'.status = PSA_ERROR_CONNECTION_REFUSED
                 /\ NothingAllocated
           /\ (sid \in KnownSids /\ ServiceOf(sid).stateless) =>
                 /\ api_ret'.status = PSA_ERROR_PROGRAMMER_ERROR
                 /\ NothingAllocated
           /\ (sid \in KnownSids /\ ~ServiceOf(sid).stateless /\ Unwelcome(sid, v, c)) =>
                 /\ api_ret'.status = PSA_ERROR_CONNECTION_REFUSED
                 /\ NothingAllocated
           /\ \A k \in ConnIds :
                 (connections'[k] # connections[k]) =>
                    ~ServiceOf(connections'[k].service).stateless
      ]_vars

\* A connect was refused for a stateless service while the pool held a
\* connection.
C11_Witness ==
    /\ api_ret.op = "connect"
    /\ api_ret.status = PSA_ERROR_PROGRAMMER_ERROR
    /\ api_ret.p_connection = NoConnection
    /\ forwarded_msg = NoForward
    /\ Allocated # {}

\* C12: when every entry of the pool is allocated, a connect that passes
\* the checks returns PSA_ERROR_CONNECTION_BUSY, changes no connection of
\* the pool (status, client id, service, message), passes nothing to the
\* backend and leaves no connection pointer to its caller.
C12_ExhaustedPoolIsBusy ==
    [][\A sid \in Sids : \A v \in Versions : \A c \in Callers : \A b \in BackendRets :
         (/\ ClientPsaConnect(sid, v, c, b)
          /\ Allocated = ConnIds
          /\ sid \in KnownSids
          /\ ~ServiceOf(sid).stateless
          /\ ~Unwelcome(sid, v, c)) =>
            /\ api_ret'.status = PSA_ERROR_CONNECTION_BUSY
            /\ NothingAllocated
      ]_vars

\* A connect returned PSA_ERROR_CONNECTION_BUSY with the pool full.
C12_Witness ==
    /\ api_ret.op = "connect"
    /\ api_ret.status = PSA_ERROR_CONNECTION_BUSY
    /\ Allocated = ConnIds

\* C13: the connection a connect allocates is initialised to IDLE, bound to
\* the requested service and the caller's client id, with message type
\* connect; after the call it is ACTIVE exactly when backend_messaging
\* returned PSA_SUCCESS.
C13_ActiveOnlyAfterForwarding ==
    [][\A sid \in Sids : \A v \in Versions : \A c \in Callers : \A b \in BackendRets :
         (ClientPsaConnect(sid, v, c, b) /\ api_ret'.p_connection # NoConnection) =>
            LET r == spm_psa_connect_client_id_associated(
                         connections, NoConnection, sid, v, c)
                k == r.p_connection
            IN /\ k = api_ret'.p_connection
               /\ ~connections[k].allocated
               /\ r.pool[k].status = TFM_HANDLE_STATUS_IDLE
               /\ r.pool[k].service = sid
               /\ r.pool[k].client_id = c
               /\ r.pool[k].msg.type = PSA_IPC_CONNECT
               /\ forwarded_msg' = [connection |-> k, type |-> PSA_IPC_CONNECT]
               /\ (connections'[k].status = TFM_HANDLE_STATUS_ACTIVE)
                     <=> (api_ret'.status = PSA_SUCCESS)
      ]_vars

\* Connection k is allocated and to be freed.
ToFree(pool, k) ==
    pool[k].allocated /\ (pool[k].status = TFM_HANDLE_STATUS_TO_FREE)

\* C14: a connection becomes TO_FREE only in a close whose handle resolves
\* to it for the calling client id, and that close passes a disconnect
\* message of the connection to the backend; a close with a handle that is
\* no connection's or is a connection of another client id returns the error
\* of the lookup and changes no connection; a close with a static handle
\* returns PSA_ERROR_PROGRAMMER_ERROR and changes no connection.
C14_ToFreeOnlyThroughOwnClose ==
    [][/\ \A k \in ConnIds :
            (ToFree(connections', k) /\ ~ToFree(connections, k)) =>
               \E c \in Callers : \E b \in BackendRets :
                  /\ ClientPsaClose(k, c, b)
                  /\ connections[k].allocated
                  /\ connections[k].client_id = c
                  /\ connections'[k].client_id = c
                  /\ connections'[k].msg.type = PSA_IPC_DISCONNECT
                  /\ forwarded_msg' = [connection |-> k, type |-> PSA_IPC_DISCONNECT]
       /\ \A h \in ConnHandles : \A c \in Callers : \A b \in BackendRets :
            ClientPsaClose(h, c, b) =>
               /\ (/\ h # PSA_NULL_HANDLE
                   /\ h < STATIC_HANDLE_BASE
                   /\ \/ h \notin Allocated
                      \/ connections[h].client_id # c) =>
                     /\ api_ret'.status = spm_get_idle_connection(connections, h, c).status
                     /\ api_ret'.status # PSA_SUCCESS
                     /\ connections' = connections
                     /\ forwarded_msg' = NoForward
               /\ (h >= STATIC_HANDLE_BASE) =>
                     /\ api_ret'.status = PSA_ERROR_PROGRAMMER_ERROR
                     /\ connections' = connections
                     /\ forwarded_msg' = NoForward
      ]_vars

\* A close has marked a connection TO_FREE and passed its disconnect
\* message to the backend while another client holds a connection.
C14_Witness ==
    /\ api_ret.op = "close"
    /\ \E k \in ConnIds :
          /\ ToFree(connections, k)
          /\ forwarded_msg = [connection |-> k, type |-> PSA_IPC_DISCONNECT]
          /\ \E j \in Allocated : connections[j].client_id # connections[k].client_id

\* C15: a close with the null handle returns PSA_SUCCESS and changes no
\* connection and nothing of the pool, passes nothing to the backend and
\* does not stop the caller, in whatever state it is called.
C15_CloseNullHandleNoEffect ==
    [][\A c \in Callers : \A b \in BackendRets :
         ClientPsaClose(PSA_NULL_HANDLE, c, b) =>
            /\ api_ret'.status = PSA_SUCCESS
            /\ connections' = connections
            /\ forwarded_msg' = NoForward
            /\ api_fault' = api_fault
      ]_vars

\* A close with the null handle has returned while the pool held a
\* connection: a close that returns PSA_SUCCESS for a connection passes its
\* message to the backend, this one passed nothing.
C15_Witness ==
    /\ api_ret.op = "close"
    /\ api_ret.status = PSA_SUCCESS
    /\ forwarded_msg = NoForward
    /\ Allocated # {}

\* C17: set_rhandle panics and writes no rhandle when the message handle
\* resolves to no connection or to a connection of a stateless service;
\* otherwise it stores the value in msg.rhandle of that connection, returns
\* PSA_SUCCESS and changes nothing else.
C17_SetRhandle ==
    [][\A h \in ConnHandles : \A r \in Rhandles :
         PartitionSetRhandle(h, r) =>
            IF \/ h \notin Allocated
               \/ ServiceOf(connections[h].service).stateless
            THEN /\ api_fault' = "panic"
                 /\ connections' = connections
            ELSE /\ api_fault' = "none"
                 /\ api_ret'.status = PSA_SUCCESS
                 /\ connections' = [connections EXCEPT ![h].msg.rhandle = r]
      ]_vars

\* set_rhandle has panicked for the message of a stateless service.
C17_Witness ==
    /\ api_fault = "panic"
    /\ api_ret.op = "set_rhandle"
    /\ api_ret.p_connection \in Allocated
    /\ ServiceOf(connections[api_ret.p_connection].service).stateless
    /\ connections[api_ret.p_connection].msg.rhandle = 0

(***************************************************************************)
(* Properties of tfm_mailbox_init.                                         *)
(***************************************************************************)
\* C16: tfm_mailbox_init zeroes the queue and sets the empty bit of each of
\* the NUM_MAILBOX_QUEUE_SLOT slots and no other bit, without overflow, for
\* every slot count up to the width of the mask; when the registration of
\* the callbacks fails it returns the registration error and does not call
\* the platform initialisation; when the platform initialisation fails it
\* unregisters the callbacks and returns that error; the callbacks are
\* registered afterwards exactly when it returns MAILBOX_SUCCESS.
C16_InitRollsBack ==
    [][\A reg_ret \in RegisterRets : \A hal_ret \in HalInitRets :
         MailboxInit(reg_ret, hal_ret) =>
            /\ \A i \in 0 .. (boot.slots - 1) : boot'.queue[i] = 0
            /\ MaskBits(boot'.empty_slots) = 0 .. (boot.slots - 1)
            /\ boot'.carry = 0
            /\ boot'.register_calls = 1
            /\ (reg_ret # TFM_RPC_SUCCESS) =>
                  /\ boot'.ret = MAILBOX_CALLBACK_REG_ERROR
                  /\ boot'.hal_init_calls = 0
                  /\ boot'.unregister_calls = 0
            /\ (reg_ret = TFM_RPC_SUCCESS /\ hal_ret # MAILBOX_SUCCESS) =>
                  /\ boot'.ret = hal_ret
                  /\ boot'.hal_init_calls = 1
                  /\ boot'.unregister_calls = 1
            /\ (reg_ret = TFM_RPC_SUCCESS /\ hal_ret = MAILBOX_SUCCESS) =>
                  /\ boot'.ret = MAILBOX_SUCCESS
                  /\ boot'.unregister_calls = 0
            /\ boot'.registered <=> (boot'.ret = MAILBOX_SUCCESS)
      ]_vars

\* tfm_mailbox_init has rolled the registration back for a queue of as many
\* slots as the mask has bits.
C16_Witness ==
    /\ boot.stage = "done"
    /\ boot.slots = STATUS_BITS
    /\ boot.ret = MAILBOX_INIT_ERROR
    /\ boot.unregister_calls = 1
    /\ MaskBits(boot.empty_slots) = 0 .. (STATUS_BITS - 1)

(***************************************************************************)
(* Properties of the slots in flight and of the critical sections.         *)
(***************************************************************************)
\* C18: a drain pass copies a message into a secure slot only when the slot
\* is empty, so a request in flight (dispatched, its reply not delivered) is
\* never overwritten, also when the non-secure side sets the pending bit of
\* its slot again.
C18_NoCopyIntoInFlightSlot ==
    [][HandleMsgSlot => get_spe_queue_empty_status(empty_slots, idx)]_vars

\* The events that write one of the three status masks.
StatusWrites == {"pend_write", "replied_write", "empty_write"}

\* The number of critical sections held after the first k events of log.
Depth(log, k) ==
    Cardinality({j \in 1 .. k : log[j] = "enter"})
      - Cardinality({j \in 1 .. k : log[j] = "exit"})

\* C19: every write of the pending mask, the replied mask and the empty
\* mask happens while the critical section of the mailbox is held.
C19_StatusWritesInsideCriticalSection ==
    \A k \in 1 .. Len(cs_log) :
        (cs_log[k] \in StatusWrites) => (Depth(cs_log, k) = 1)

\* The events before which no critical section may be held.
OutsideEvents == {"stage", "backend", "notify", "return", "panic"}

\* C20: in tfm_mailbox_handle_msg, tfm_mailbox_reply_msg and connect every
\* critical section entered is left before any staging of vectors, any
\* call into the backend, any notification of the peer and any return; no
\* critical section is entered while one is held, and none is held when
\* the operation ends.
C20_ShortCriticalSections ==
    /\ \A k \in 1 .. Len(cs_log) :
          /\ Depth(cs_log, k) \in {0, 1}
          /\ (cs_log[k] \in OutsideEvents) => (Depth(cs_log, k) = 0)
    /\ Depth(cs_log, Len(cs_log)) = 0

\* A drain pass has staged the vectors of a call and forwarded the call to
\* the backend.
C20_Witness ==
    /\ ret.op = "handle_msg"
    /\ \E k \in 1 .. Len(cs_log) : cs_log[k] = "stage"
    /\ \E k \in 1 .. Len(cs_log) : cs_log[k] = "backend"

\* The call types the switch of tfm_mailbox_dispatch has a case for.
KnownCallType(ct) ==
    ct \in {MAILBOX_PSA_FRAMEWORK_VERSION, MAILBOX_PSA_VERSION, MAILBOX_PSA_CALL,
            MAILBOX_PSA_CONNECT, MAILBOX_PSA_CLOSE}

\* C22: when a drain pass dispatches a message whose call type is not one of
\* the five known ones, tfm_mailbox_dispatch returns MAILBOX_INVAL_PARAMS,
\* the secure slot is zeroed and marked empty, the slot is not added to the
\* replied slots of the pass and the loop goes on to the next slot; at the
\* end of the pass every slot of the snapshot was dispatched, the replied bit
\* of the rejected slot is as it was, and tfm_mailbox_handle_msg returns
\* MAILBOX_SUCCESS.
C22_UnknownCallTypeRejected ==
    [][ /\ (HandleMsgSlot /\ ~KnownCallType(ns_msg[idx].call_type)) =>
             /\ \A bret \in BackendRets :
                   tfm_mailbox_dispatch(SlotTaken(Memory, idx), ns_msg[idx],
                                        idx, bret).ret = MAILBOX_INVAL_PARAMS
             /\ queue'[idx] = ZeroSlot
             /\ TestBit(empty_slots', idx)
             /\ reply_slots' = reply_slots
             /\ ns_reply' = ns_reply
             /\ fault' = "none"
             /\ pc' = "loop"
             /\ idx' = idx + 1
        /\ PassEnds =>
             /\ {l.slot : l \in Logged} = SnapshotSlots
             /\ Len(pass_log) = Cardinality(SnapshotSlots)
             /\ \A l \in Logged : ~KnownCallType(l.msg.call_type) =>
                   /\ l.rejected
                   /\ TestBit(replied_slots', l.slot) = TestBit(replied_slots, l.slot)
                   /\ ~TestBit(replied_slots', l.slot)
                   /\ TestBit(empty_slots', l.slot)
                   /\ queue'[l.slot] = ZeroSlot
             /\ (\E l \in Logged : ~KnownCallType(l.msg.call_type)) =>
                   ret' = Result("handle_msg", 0, MAILBOX_SUCCESS)
      ]_vars

\* C22 witness: a pass has ended that rejected the message of slot 0, whose
\* call type is unknown, and after it answered the version query of slot 1.
C22_Witness ==
    /\ pc = "idle"
    /\ ret = Result("handle_msg", 0, MAILBOX_SUCCESS)
    /\ Len(pass_log) = 2
    /\ pass_log[1].slot = 0
    /\ pass_log[1].msg.call_type = CALL_TYPE_UNKNOWN
    /\ pass_log[1].rejected
    /\ pass_log[2].slot = 1
    /\ pass_log[2].msg.call_type = MAILBOX_PSA_VERSION
    /\ TestBit(empty_slots, 0)
    /\ queue[0] = ZeroSlot
    /\ ~TestBit(replied_slots, 0)
    /\ TestBit(replied_slots, 1)

\* The results mailbox_direct_reply is called with: what the backend passes
\* to tfm_mailbox_reply_msg and what tfm_mailbox_dispatch replies in a pass.
DirectReplyResults ==
    ReplyVals \cup BackendRets \cup
    {PSA_ERROR_INVALID_ARGUMENT, PSA_FRAMEWORK_VERSION, 1}

\* The slot is all zero, marked empty, and its staging entry is not in use.
SlotClean(q, empty, vec, i) ==
    /\ q[i] = ZeroSlot
    /\ TestBit(empty, i)
    /\ ~vec[i].in_use

\* C23: for every slot index i below NUM_MAILBOX_QUEUE_SLOT and every result
\* r, after mailbox_direct_reply(i, r) the secure slot i is all zero, the
\* empty bit of i is set and in_use of the staging entry of i is false.  This
\* holds of mailbox_direct_reply run in any reachable state, of every reply
\* tfm_mailbox_reply_msg makes and of every reply made in a drain pass.
C23_DirectReplyCleansSlot ==
    [][ /\ \A i \in Slots : \A r \in DirectReplyResults :
             LET st == mailbox_direct_reply(Memory, i, r)
             IN /\ st.fault = "none"
                /\ SlotClean(st.queue, st.empty_slots, st.vectors, i)
        /\ \A i \in Slots :
             (ret' = Result("reply_msg", i, MAILBOX_SUCCESS)) =>
                SlotClean(queue', empty_slots', vectors', i)
        /\ ( /\ HandleMsgSlot
             /\ pass_log'[Len(pass_log')].sync
             /\ ~pass_log'[Len(pass_log')].rejected ) =>
                SlotClean(queue', empty_slots', vectors', idx)
      ]_vars

\* C23 witness: tfm_mailbox_reply_msg has replied success to slot 1, whose
\* staging entry was in use (the output length was written back), and the
\* slot is clean.
C23_Witness ==
    /\ ret = Result("reply_msg", 1, MAILBOX_SUCCESS)
    /\ wb = {<<1, 1>>}
    /\ ns_reply[1] = ReplyWord(PSA_SUCCESS)
    /\ SlotClean(queue, empty_slots, vectors, 1)

\* The number of input descriptors a staging entry holds.
StagedInputs(v) == Cardinality({j \in 1 .. PSA_MAX_IOVEC : v.in_vec[j] # ZeroDesc})

\* C24: local_copy_vects returns MAILBOX_INVAL_PARAMS and leaves the staging
\* entries and the status masks as they were whenever in_len or out_len
\* exceeds PSA_MAX_IOVEC, their sum exceeds it, or a descriptor array is null
\* while its count is not zero; otherwise it returns MAILBOX_SUCCESS and the
\* entry of the slot is in use with the out_len and the output array of the
\* call.  So every staging entry in use holds at most PSA_MAX_IOVEC
\* descriptors, inputs and outputs together.
C24_StagingRejectsBadCounts ==
    [][ /\ HandleMsgSlot =>
             LET m == ns_msg[idx]
                 taken == SlotTaken(Memory, idx)
                 c == local_copy_vects(taken, m, idx)
             IN IF StagingFails(m)
                THEN /\ c.ret = MAILBOX_INVAL_PARAMS
                     /\ c.st = Ev(taken, "stage")
                     /\ vectors' = vectors
                     /\ pend_slots' = pend_slots
                     /\ replied_slots' = replied_slots
                     /\ empty_slots' = empty_slots
                     /\ ~pass_log'[Len(pass_log')].forwarded
                     /\ pass_log'[Len(pass_log')].psa_ret = PSA_ERROR_INVALID_ARGUMENT
                ELSE /\ c.ret = MAILBOX_SUCCESS
                     /\ c.st.vectors[idx].in_use
                     /\ c.st.vectors[idx].out_len = m.out_len
                     /\ c.st.vectors[idx].original_out_vec = m.out_vec
                     /\ StagedInputs(c.st.vectors[idx]) = m.in_len
                     /\ c.st.empty_slots = taken.empty_slots
                     /\ pass_log'[Len(pass_log')].forwarded
        /\ \A i \in Slots : vectors'[i].in_use =>
             /\ StagedInputs(vectors'[i]) + vectors'[i].out_len <= PSA_MAX_IOVEC
             /\ queue'[i].msg.in_len + queue'[i].msg.out_len <= PSA_MAX_IOVEC
      ]_vars

\* C24 witness: a pass has dispatched a call of slot 0 with three input and
\* two output vectors, which was answered PSA_ERROR_INVALID_ARGUMENT in the
\* pass; the staging entry of the slot still holds the four output
\* descriptors of the call before.
C24_Witness ==
    /\ Len(pass_log) = 1
    /\ pass_log[1].slot = 0
    /\ pass_log[1].msg.in_len = 3
    /\ pass_log[1].msg.out_len = 2
    /\ pass_log[1].sync
    /\ pass_log[1].psa_ret = PSA_ERROR_INVALID_ARGUMENT
    /\ vectors[0].out_len = 4
    /\ ~vectors[0].in_use
    /\ ns_reply[0] = ReplyWord(PSA_ERROR_INVALID_ARGUMENT)

\* The step is a reply of tfm_mailbox_reply_msg to slot i with result r.
RepliesTo(i, r) ==
    /\ pc = "idle"
    /\ ~get_spe_queue_empty_status(empty_slots, i)
    /\ ret' = Result("reply_msg", i, MAILBOX_SUCCESS)
    /\ ns_reply'[i] = ReplyWord(r)
    /\ TestBit(empty_slots', i)

\* C25: after local_copy_vects succeeded for slot i with out_len = n, the
\* reply mailbox_direct_reply(i, PSA_SUCCESS) writes the length of staged
\* output descriptor j, as the service left it, into descriptor j of the
\* caller's output array for j below n and for no other j, and changes
\* nothing else of the caller's arrays; a reply with another result writes
\* no length back, in tfm_mailbox_reply_msg as in a drain pass.
C25_LengthsWrittenBack ==
    [][ /\ \A i \in Slots : \A r \in ReplyVals :
             (RepliesTo(i, r) /\ vectors[i].in_use) =>
                LET n == vectors[i].out_len
                    p == vectors[i].original_out_vec - 1
                IN IF r = PSA_SUCCESS
                   THEN /\ wb' = {<<p, j>> : j \in 1 .. n}
                        /\ (n > 0) => (p = i)
                        /\ \A k \in Slots :
                             /\ ns_iovec'[k].in = ns_iovec[k].in
                             /\ Len(ns_iovec'[k].out) = Len(ns_iovec[k].out)
                             /\ \A j \in 1 .. Len(ns_iovec[k].out) :
                                  ns_iovec'[k].out[j] =
                                     IF (n > 0) /\ (k = p) /\ (j <= n)
                                     THEN Desc(ns_iovec[k].out[j].base,
                                               vectors[i].out_vec[j].len)
                                     ELSE ns_iovec[k].out[j]
                   ELSE /\ wb' = {}
                        /\ ns_iovec' = ns_iovec
        /\ (HandleMsgSlot /\ pass_log'[Len(pass_log')].psa_ret # PSA_SUCCESS) =>
             /\ wb' = wb
             /\ ns_iovec' = ns_iovec
      ]_vars

\* C25 witness: the call of slot 0 declared two outputs of three bytes, the
\* service wrote one byte to the second, and the reply with PSA_SUCCESS has
\* written both lengths back; the third descriptor of the caller's array is
\* as it was.
C25_Witness ==
    /\ ret = Result("reply_msg", 0, MAILBOX_SUCCESS)
    /\ ns_reply[0] = ReplyWord(PSA_SUCCESS)
    /\ wb = {<<0, 1>>, <<0, 2>>}
    /\ ns_iovec[0].out = << Desc(2, 3), Desc(2, BytesWritten), Desc(2, 3) >>
    /\ ~vectors[0].in_use
    /\ vectors[0].out_len = 2

\* The staging entry of slot i belongs to the message the slot holds: a
\* stateless call with the out_len and the output array that were staged.
StagedForCurrent(q, vec, i) ==
    /\ q[i].msg.call_type = MAILBOX_PSA_CALL
    /\ q[i].msg.out_len = vec[i].out_len
    /\ q[i].msg.out_vec = vec[i].original_out_vec
    /\ ~StagingFails(q[i].msg)

\* C26: output lengths are written back only by a reply to a slot whose
\* message is the stateless call that was staged: in every state in_use of
\* slot i implies that the slot is not empty and holds the call that set
\* in_use, and a step that writes lengths back is a reply to such a slot.
C26_NoStaleWriteBack ==
    [][ /\ \A i \in Slots : vectors'[i].in_use =>
             /\ ~get_spe_queue_empty_status(empty_slots', i)
             /\ StagedForCurrent(queue', vectors', i)
        /\ (wb' # {} /\ wb' # wb) =>
             \E i \in Slots :
                /\ pc = "idle"
                /\ ret' = Result("reply_msg", i, MAILBOX_SUCCESS)
                /\ ~get_spe_queue_empty_status(empty_slots, i)
                /\ vectors[i].in_use
                /\ StagedForCurrent(queue, vectors, i)
                /\ wb' = {<<i, j>> : j \in 1 .. queue[i].msg.out_len}
      ]_vars

\* The step is one of the secure side: the non-secure side queued nothing
\* and collected nothing in it.
SecureStep ==
    /\ nsub' = nsub
    /\ BitsOf(replied_slots) \subseteq BitsOf(replied_slots')

\* The step wrote a reply word.
WritesReply ==
    /\ SecureStep
    /\ \E k \in 1 .. Len(cs_log') : cs_log'[k] = "reply_write"

\* Secure slot i of queue q is in use by the request of non-secure slot i.
OwnSlot(q, empty, i) ==
    /\ ~get_spe_queue_empty_status(empty, i)
    /\ q[i].ns_slot_idx = i
    /\ q[i].msg_handle = i + 1

\* C27: whenever a reply word is written, the secure slot it is written for
\* is not empty, its origin slot index is its own index and its handle is
\* the index plus one, and the word is written into the reply area of that
\* non-secure slot and no other; mailbox_direct_reply never runs on a slot
\* that was cleaned.  In every state a slot that is not empty records its
\* own index and handle, and an empty slot is zero.
C27_ReplyRoutedToOwnSlot ==
    [][ /\ (WritesReply /\ pc = "idle") =>
             \E i \in Slots : \E r \in ReplyVals :
                /\ ret' = Result("reply_msg", i, MAILBOX_SUCCESS)
                /\ OwnSlot(queue, empty_slots, i)
                /\ ns_reply' = [ns_reply EXCEPT ![i] = ReplyWord(r)]
        /\ (WritesReply /\ pc = "loop") =>
             LET taken == SlotTaken(Memory, idx)
                 l == pass_log'[Len(pass_log')]
             IN /\ l.slot = idx
                /\ l.sync
                /\ OwnSlot(taken.queue, taken.empty_slots, idx)
                /\ ns_reply' = [ns_reply EXCEPT ![idx] = ReplyWord(l.psa_ret)]
        /\ (SecureStep /\ ~WritesReply) => (ns_reply' = ns_reply)
        /\ \A i \in Slots :
             IF get_spe_queue_empty_status(empty_slots', i)
             THEN queue'[i] = ZeroSlot
             ELSE OwnSlot(queue', empty_slots', i)
      ]_vars

\* C27 witness: with slot 0 empty and slot 1 holding a deferred request,
\* tfm_mailbox_reply_msg has written the reply of slot 1 into the reply area
\* of non-secure slot 1 and nothing into that of slot 0.
C27_Witness ==
    /\ ret = Result("reply_msg", 1, MAILBOX_SUCCESS)
    /\ cs_log = <<"reply_write", "empty_write", "enter", "replied_write", "exit",
                  "notify", "return">>
    /\ ns_reply[1] = ReplyWord(PSA_ERROR_GENERIC_ERROR)
    /\ ns_reply[0] = 0
    /\ queue[1] = ZeroSlot
    /\ TestBit(replied_slots, 1)
    /\ ns_busy[1]

\* The positions of event e in a log.
Positions(log, e) == {k \in 1 .. Len(log) : log[k] = e}

\* Every e in the log comes before every f.
Before(log, e, f) ==
    \A k \in Positions(log, e) : \A j \in Positions(log, f) : k < j

\* The replied bits a step sets.
NewlyReplied == BitsOf(replied_slots') \ BitsOf(replied_slots)

\* C28: the replied bit of slot i is set, by the closing critical section of
\* a drain pass or by tfm_mailbox_reply_msg, only after the reply word of i
\* was written and secure slot i was zeroed and marked empty, and
\* tfm_mailbox_hal_notify_peer is called only after the replied bit was set;
\* while the replied bit of i is set the reply word of i does not change, so
\* the peer that sees the bit reads the final reply word.
C28_RepliedAfterReplyWritten ==
    [][ /\ PassEnds =>
             /\ NewlyReplied \subseteq BitsOf(reply_slots)
             /\ \A i \in BitsOf(reply_slots) :
                  /\ TestBit(replied_slots', i)
                  /\ queue[i] = ZeroSlot
                  /\ TestBit(empty_slots, i)
                  /\ \E l \in Logged :
                       /\ l.slot = i
                       /\ l.sync
                       /\ ns_reply[i] = ReplyWord(l.psa_ret)
                       /\ ns_reply'[i] = ReplyWord(l.psa_ret)
             /\ Before(cs_log', "replied_write", "notify")
             /\ (Positions(cs_log', "notify") # {}) => (reply_slots # 0)
        /\ (SecureStep /\ pc = "loop" /\ ~PassEnds) =>
             /\ replied_slots' = replied_slots
             /\ Positions(cs_log', "notify") = {}
             /\ Positions(cs_log', "reply_write") # {} =>
                  /\ Before(cs_log', "reply_write", "replied_write")
                  /\ Positions(cs_log', "empty_write") # {}
                  /\ \E k \in Positions(cs_log', "empty_write") :
                        \A j \in Positions(cs_log', "reply_write") : j < k
                  /\ TestBit(reply_slots', idx)
                  /\ queue'[idx] = ZeroSlot
                  /\ TestBit(empty_slots', idx)
        /\ (SecureStep /\ pc = "idle" /\ NewlyReplied # {}) =>
             \E i \in Slots :
                /\ NewlyReplied = {i}
                /\ ret' = Result("reply_msg", i, MAILBOX_SUCCESS)
                /\ Positions(cs_log', "reply_write") # {}
                /\ Positions(cs_log', "empty_write") # {}
                /\ Before(cs_log', "reply_write", "empty_write")
                /\ Before(cs_log', "empty_write", "replied_write")
                /\ Before(cs_log', "replied_write", "notify")
                /\ queue'[i] = ZeroSlot
                /\ TestBit(empty_slots', i)
        /\ (SecureStep /\ Positions(cs_log', "notify") # {} /\ pc = "idle" /\ pc' = "idle") =>
             /\ Positions(cs_log', "replied_write") # {}
             /\ Before(cs_log', "replied_write", "notify")
        /\ \A i \in Slots :
             (TestBit(replied_slots, i) /\ TestBit(replied_slots', i)) =>
                ns_reply'[i] = ns_reply[i]
      ]_vars

\* C28 witness: a pass that replied to slot 0 has ended: the reply word of
\* slot 0 is written, the slot is zero and empty, its replied bit is set and
\* the peer was notified after the bit was set.
C28_Witness ==
    /\ pc = "idle"
    /\ ret = Result("handle_msg", 0, MAILBOX_SUCCESS)
    /\ cs_log = <<"enter", "pend_write", "replied_write", "exit", "notify", "return">>
    /\ Len(pass_log) = 1
    /\ pass_log[1].slot = 0
    /\ pass_log[1].sync
    /\ ns_reply[0] = ReplyWord(pass_log[1].psa_ret)
    /\ ns_reply[0] # 0
    /\ queue[0] = ZeroSlot
    /\ TestBit(empty_slots, 0)
    /\ TestBit(replied_slots, 0)

\* The state of the request of slot i, as the non-secure side and the status
\* masks show it.
SlotState(i) ==
    IF ~ns_busy[i] THEN "EMPTY"
    ELSE IF ns_fresh[i] THEN "PENDING"
    ELSE IF ~TestBit(replied_slots, i) THEN "DISPATCHED"
    ELSE "REPLIED"

\* The state that follows each state of a slot.
SlotSuccessor(s) ==
    CASE s = "EMPTY" -> "PENDING"
      [] s = "PENDING" -> "DISPATCHED"
      [] s = "DISPATCHED" -> "REPLIED"
      [] s = "REPLIED" -> "EMPTY"

\* What the masks and the secure slot hold in each state of slot i.
SlotStateHolds(i) ==
    CASE SlotState(i) = "EMPTY" ->
           /\ ~TestBit(pend_slots, i)
           /\ ~TestBit(replied_slots, i)
           /\ get_spe_queue_empty_status(empty_slots, i)
           /\ queue[i] = ZeroSlot
      [] SlotState(i) = "PENDING" ->
           /\ TestBit(pend_slots, i)
           /\ ~TestBit(replied_slots, i)
           /\ get_spe_queue_empty_status(empty_slots, i)
      [] SlotState(i) = "DISPATCHED" ->
           \* deferred, or replied to in the running pass
           \/ /\ ~get_spe_queue_empty_status(empty_slots, i)
              /\ queue[i].msg = ns_msg[i]
           \/ /\ pc = "loop"
              /\ TestBit(reply_slots, i)
              /\ get_spe_queue_empty_status(empty_slots, i)
      [] SlotState(i) = "REPLIED" ->
           /\ ~TestBit(pend_slots, i)
           /\ get_spe_queue_empty_status(empty_slots, i)
           /\ queue[i] = ZeroSlot

\* Slot i holds a request whose call type tfm_mailbox_dispatch knows.
ValidRequest(i) == ns_busy[i] /\ KnownCallType(ns_msg[i].call_type)

\* C21: if the backend replies to every request it deferred, every slot
\* made pending with a valid message eventually has its replied bit set and
\* its secure slot empty again, and the slot goes through EMPTY, PENDING,
\* DISPATCHED, REPLIED, EMPTY in this order, no state skipped or taken
\* backwards.
C21_SlotLifecycle ==
    /\ [][ \A i \in Slots :
             /\ (ValidRequest(i)' \/ ~ns_busy[i]') => SlotStateHolds(i)'
             /\ (ValidRequest(i) \/ ValidRequest(i)') =>
                   \/ SlotState(i)' = SlotState(i)
                   \/ SlotState(i)' = SlotSuccessor(SlotState(i))
         ]_vars
    /\ \A i \in Slots :
          (SlotState(i) = "PENDING" /\ ValidRequest(i)) ~>
             (TestBit(replied_slots, i) /\ get_spe_queue_empty_status(empty_slots, i))

\* C21 witness: the connect of slot 1 was deferred by the backend and has
\* been replied to by tfm_mailbox_reply_msg: the slot is in state REPLIED.
C21_Witness ==
    /\ SlotState(1) = "REPLIED"
    /\ ns_msg[1].call_type = MAILBOX_PSA_CONNECT
    /\ ret = Result("reply_msg", 1, MAILBOX_SUCCESS)
    /\ TestBit(replied_slots, 1)
    /\ get_spe_queue_empty_status(empty_slots, 1)
    /\ queue[1] = ZeroSlot

====
